---- MODULE Spec2Model ----
(***************************************************************************)
(* JeuxBoard: role-based project tracking.                                 *)
(*                                                                         *)
(* The model has two layers, as the repository has:                        *)
(*   - the presentation layer (React components): canEditField,            *)
(*     RoleProtected, the Sidebar menu, the ProjectDetail / ModuleTable /  *)
(*     AddProject handlers and their view state;                           *)
(*   - the backing store (Postgres tables with row level security):        *)
(*     the tables users, projects, project_members, project_modules and    *)
(*     the policies of the last migration.                                 *)
(*                                                                         *)
(* SpecPolicy evaluates the access decisions as pure functions of          *)
(* (actor, record, field); SpecModules is the ModuleTable of one project   *)
(* detail page; SpecProjects is the navigation of App with the Projects,   *)
(* AddProject and ProjectDetail pages.                                     *)
(***************************************************************************)
EXTENDS Naturals, FiniteSets, Sequences, TLC

VARIABLES
  users,            \* table users: set of rows
  projects,         \* table projects: set of rows
  project_members,  \* table project_members: set of rows
  project_modules,  \* table project_modules: set of rows
  auth_users,       \* auth.users: the ids of the auth identities
  now,              \* the store's clock: the number of handlers whose writes were applied
  decision,         \* SpecPolicy: the last access decision that was evaluated
  ui,               \* the view state of each browser session
  sent,             \* the last mutation request a session sent to the store
  client            \* lib/supabase: the settings read at start-up and the client made of them

vars == <<users, projects, project_members, project_modules, auth_users, now,
         decision, ui, sent, client>>

store == <<users, projects, project_members, project_modules, auth_users, now>>

NULL == "NULL"

\* the client the pages send their requests through, once start-up is over
ClientReady == [url |-> "v1", key |-> "v1", state |-> "created", log |-> "connected"]

\* useAuth().profile when nobody is signed in
NoProfile == [id |-> NULL, auth_id |-> NULL, role |-> NULL]

----------------------------------------------------------------------------
(* Bounds *)

\* largest number of project_members rows drawn in an initial state
MaxMembers == 1

\* the horizon of the store's clock: no handler changes the store once the
\* clock has reached it
MaxTime == 2

\* largest number of fields an edit session changes before it is saved
MaxChanges == 1

\* largest number of users ticked in the add-project form
MaxFormMembers == 2

----------------------------------------------------------------------------
(* Enumerations of the schema *)

\* the rows seeded into table roles
Roles == {"admin", "dev", "pm", "cto", "lead", "designer"}

ProjectStatus == {"not_started", "in_progress", "blocked", "done"}

ReviewStatus == {"pending", "approved", "rejected"}

\* the users of the model: one per role, a second developer, and a user
\* whose stored role (users.role is free text) is none of the seeded roles
UserIds ==
  {"u_admin", "u_dev", "u_dev2", "u_pm", "u_cto", "u_lead", "u_designer", "u_intern"}

RoleOfUser ==
  [u \in UserIds |->
     CASE u = "u_admin"    -> "admin"
       [] u = "u_dev"      -> "dev"
       [] u = "u_dev2"     -> "dev"
       [] u = "u_pm"       -> "pm"
       [] u = "u_cto"      -> "cto"
       [] u = "u_lead"     -> "lead"
       [] u = "u_designer" -> "designer"
       [] u = "u_intern"   -> "intern"]

\* a row of table users; the auth identity is paired 1:1 with the row
UserRow(u) == [id |-> u, auth_id |-> u, name |-> "n0", role |-> RoleOfUser[u]]

ProjectIds == {"p1", "p2"}

ModuleIds == {"m1", "m2"}

\* the browser sessions
Sessions == {"s1", "s2"}

\* the updatable columns of project_modules that canEditField knows
Fields ==
  {"module_name", "platform_stack", "assigned_dev_id", "design_locked_date",
   "dev_start_date", "self_qa_date", "lead_signoff_date", "pm_review_date",
   "cto_review_status", "client_ready_status", "status", "eta", "sprint",
   "notes"}

----------------------------------------------------------------------------
(* Presentation layer: ModuleTable.canEditField *)

\* fieldPermissions with the pm also admitted to cto_review_status
fieldPermissions_PmApproves ==
  [module_name         |-> {"admin"},
   platform_stack      |-> {"admin"},
   assigned_dev_id     |-> {"admin"},
   design_locked_date  |-> {"designer", "admin"},
   dev_start_date      |-> {"dev", "admin"},
   self_qa_date        |-> {"dev", "admin"},
   lead_signoff_date   |-> {"lead", "admin"},
   pm_review_date      |-> {"pm", "admin"},
   cto_review_status   |-> {"cto", "pm", "admin"},
   client_ready_status |-> {"pm", "admin"},
   status              |-> {"dev", "pm", "admin"},
   eta                 |-> {"pm", "admin"},
   sprint              |-> {"pm", "admin"},
   notes               |-> {"admin", "pm", "dev", "cto", "lead", "designer"}]

fieldPermissions ==
  [module_name         |-> {"admin"},
   platform_stack      |-> {"admin"},
   assigned_dev_id     |-> {"admin"},
   design_locked_date  |-> {"designer", "admin"},
   dev_start_date      |-> {"dev", "admin"},
   self_qa_date        |-> {"dev", "admin"},
   lead_signoff_date   |-> {"lead", "admin"},
   pm_review_date      |-> {"pm", "admin"},
   cto_review_status   |-> {"cto", "admin"},
   client_ready_status |-> {"pm", "admin"},
   status              |-> {"dev", "pm", "admin"},
   eta                 |-> {"pm", "admin"},
   sprint              |-> {"pm", "admin"},
   notes               |-> {"admin", "pm", "dev", "cto", "lead", "designer"}]

\* fieldPermissions[field] || []
allowedRoles(field) ==
  IF field \in DOMAIN fieldPermissions THEN fieldPermissions[field] ELSE {}

\* canEditField without the special case of the assigned developer
canEditField_NoSpecialCase(profile, field, module) ==
  IF profile = NoProfile THEN FALSE
  ELSE profile.role \in allowedRoles(field)

\* canEditField with the assigned developer admitted to every field
canEditField_AssigneeEditsAll(profile, field, module) ==
  IF profile = NoProfile THEN FALSE
  ELSE profile.role \in allowedRoles(field)
       \/ profile.id = module.assigned_dev_id

\* profile is NoProfile or the users row of the signed-in actor
canEditField(profile, field, module) ==
  IF profile = NoProfile THEN FALSE
  ELSE IF field = "dev_start_date" \/ field = "self_qa_date"
       THEN profile.role \in allowedRoles(field)
            \/ profile.id = module.assigned_dev_id
       ELSE profile.role \in allowedRoles(field)

----------------------------------------------------------------------------
(* Presentation layer: the other role gates *)

\* RoleProtected: TRUE when the children are rendered, FALSE for the fallback
RoleProtected(profile, allowed) ==
  IF profile = NoProfile THEN FALSE ELSE profile.role \in allowed

\* the add-project page wrapped with the roles of the Sidebar item
PageAllowedRoles_AsSidebar(page) ==
  CASE page = "add-project" -> {"admin", "pm"}
    [] page = "members"     -> {"admin"}
    [] page = "analytics"   -> {"admin", "pm", "cto"}
    [] OTHER                -> Roles

\* App.renderPage: the allowedRoles of the RoleProtected wrapper of a page
PageAllowedRoles(page) ==
  CASE page = "add-project" -> {"admin"}
    [] page = "members"     -> {"admin"}
    [] page = "analytics"   -> {"admin", "pm", "cto"}
    [] OTHER                -> Roles

\* Sidebar.menuItems
menuItems ==
  [item \in {"dashboard", "projects", "add-project", "members", "analytics"} |->
     CASE item = "dashboard"   -> {"admin", "dev", "pm", "cto", "lead", "designer"}
       [] item = "projects"    -> {"admin", "dev", "pm", "cto", "lead", "designer"}
       [] item = "add-project" -> {"admin", "pm"}
       [] item = "members"     -> {"admin"}
       [] item = "analytics"   -> {"admin", "pm", "cto"}]

\* Sidebar.filteredItems
filteredItems(profile) ==
  {item \in DOMAIN menuItems : profile # NoProfile /\ profile.role \in menuItems[item]}

\* ProjectDetail.canEditProject
canEditProject(profile) ==
  profile # NoProfile /\ (profile.role = "admin" \/ profile.role = "pm")

\* ModuleTable: the condition around the delete button of a row
canDeleteModule(profile) ==
  profile # NoProfile /\ profile.role = "admin"

\* the Add Module button rendered for every signed-in user
canAddModule_AnyRole(profile) ==
  profile # NoProfile

\* ModuleTable: the condition around the Add Module button
canAddModule(profile) ==
  profile # NoProfile /\ (profile.role = "admin" \/ profile.role = "pm")

----------------------------------------------------------------------------
(* Backing store: rows *)

MemberRow(p, u) == [project_id |-> p, user_id |-> u, role_in_project |-> "member"]

\* a projects row as AddProject.handleSubmit inserts it
ProjectRow(p, creator) ==
  [id |-> p, title |-> "t0", stack |-> "t0", sprint |-> "t0", notes |-> "t0",
   status |-> "not_started", created_by |-> creator]

\* a project_modules row with the column defaults of the table
ModuleRow(m, p) ==
  [id |-> m, project_id |-> p,
   module_name |-> "t0", platform_stack |-> "t0", assigned_dev_id |-> NULL,
   design_locked_date |-> NULL, dev_start_date |-> NULL, self_qa_date |-> NULL,
   lead_signoff_date |-> NULL, pm_review_date |-> NULL,
   cto_review_status |-> "pending", client_ready_status |-> "pending",
   status |-> "not_started", eta |-> NULL, sprint |-> "t0", notes |-> NULL]

----------------------------------------------------------------------------
(* Backing store: the row level security policies of the last migration.   *)
(* uid is auth.uid(): the auth identity of the caller, NULL when the       *)
(* caller is not authenticated (the policies are TO authenticated).        *)

\* SELECT 1 FROM project_members WHERE project_id = p AND user_id = u
IsMember(u, p) ==
  \E pm \in project_members : pm.project_id = p /\ pm.user_id = u

\* the projects read policy with the member test not tied to the project
ProjectsSelectPolicy_AnyProject(uid, row) ==
  \E u \in users :
    /\ u.auth_id = uid
    /\ \/ u.role \in {"admin", "pm", "cto"}
       \/ \E pm \in project_members : pm.user_id = u.id

\* "Users can read projects they're members of or all if admin/pm/cto"
ProjectsSelectPolicy(uid, row) ==
  \E u \in users :
    /\ u.auth_id = uid
    /\ \/ u.role \in {"admin", "pm", "cto"}
       \/ IsMember(u.id, row.id)

\* "Only admins can create projects"
ProjectsInsertPolicy(uid) ==
  \E u \in users : u.auth_id = uid /\ u.role = "admin"

\* the projects update policy admitting the cto as well
ProjectsUpdatePolicy_WithCto(uid) ==
  \E u \in users : u.auth_id = uid /\ u.role \in {"admin", "pm", "cto"}

\* policy "Admins and PMs can update projects"
ProjectsUpdatePolicy(uid) ==
  \E u \in users : u.auth_id = uid /\ u.role \in {"admin", "pm"}

\* the modules read policy without the assigned developer's clause
ModulesSelectPolicy_NoAssignee(uid, row) ==
  \E u \in users :
    /\ u.auth_id = uid
    /\ \/ u.role \in {"admin", "pm", "cto"}
       \/ IsMember(u.id, row.project_id)

\* "Users can read modules from their projects"
ModulesSelectPolicy(uid, row) ==
  \E u \in users :
    /\ u.auth_id = uid
    /\ \/ u.role \in {"admin", "pm", "cto"}
       \/ IsMember(u.id, row.project_id)
       \/ row.assigned_dev_id = u.id

\* "Admins and PMs can create modules"
ModulesInsertPolicy(uid) ==
  \E u \in users : u.auth_id = uid /\ u.role \in {"admin", "pm"}

\* the modules update policy refusing status done before both approvals
ModulesUpdatePolicy_DoneNeedsApproval(uid, row) ==
  /\ row.status = "done"
       => row.cto_review_status = "approved" /\ row.client_ready_status = "approved"
  /\ \E u \in users :
       /\ u.auth_id = uid
       /\ \/ u.role = "admin"
          \/ (u.role = "pm" /\ IsMember(u.id, row.project_id))
          \/ (u.role = "dev" /\ u.id = row.assigned_dev_id)
          \/ u.role \in {"lead", "cto", "designer"}

\* "Role-based module updates"
ModulesUpdatePolicy(uid, row) ==
  \E u \in users :
    /\ u.auth_id = uid
    /\ \/ u.role = "admin"
       \/ (u.role = "pm" /\ IsMember(u.id, row.project_id))
       \/ (u.role = "dev" /\ u.id = row.assigned_dev_id)
       \/ u.role \in {"lead", "cto", "designer"}

\* "Only admins can delete modules"
ModulesDeletePolicy(uid) ==
  \E u \in users : u.auth_id = uid /\ u.role = "admin"

\* "Only admins can manage project members" (FOR ALL)
MembersManagePolicy(uid) ==
  \E u \in users : u.auth_id = uid /\ u.role = "admin"

\* an UPDATE ... WHERE id = x reaches a row when the caller may read it and
\* the UPDATE policy's USING admits it
ModulesUpdateReaches(uid, row) ==
  ModulesSelectPolicy(uid, row) /\ ModulesUpdatePolicy(uid, row)

ProjectsUpdateReaches(uid, row) ==
  ProjectsSelectPolicy(uid, row) /\ ProjectsUpdatePolicy(uid)

\* policy "Users can read all user profiles" (TO authenticated)
FetchedUsers(uid) == IF uid = NULL THEN {} ELSE users

\* policy "Users can update their own profile"
UsersUpdatePolicy(uid, row) == row.auth_id = uid

\* the users delete policy admitting every authenticated caller
UsersDeletePolicy_Anyone(uid) ==
  \E u \in users : u.auth_id = uid

\* policy "Only admins can delete users"
UsersDeletePolicy(uid) ==
  \E u \in users : u.auth_id = uid /\ u.role = "admin"

\* supabase.from('projects').select(...): the rows the caller may read
FetchedProjects(uid) == {r \in projects : ProjectsSelectPolicy(uid, r)}

\* supabase.from('project_modules').select(...).eq('project_id', p)
FetchedModules(uid, p) ==
  {r \in project_modules : r.project_id = p /\ ModulesSelectPolicy(uid, r)}

----------------------------------------------------------------------------
(* Presentation layer: view state of one session *)

\* useState({}) / useState(null): a record without columns
EmptyData == [id |-> NULL]

\* ModuleTable: the initial value of newModule
NewModuleDefaults ==
  [module_name |-> "", platform_stack |-> "", sprint |-> "",
   status |-> "not_started", cto_review_status |-> "pending",
   client_ready_status |-> "pending"]

\* AddProject: the initial value of formData
FormDefaults ==
  [title |-> "", stack |-> "", sprint |-> "", notes |-> "",
   status |-> "not_started", members |-> <<>>]

\* Members: the initial value of newUser
NewUserDefaults == [name |-> "", email |-> "", role |-> "", password |-> ""]

\* the state of every component before anybody has signed in
SignedOut ==
  [profile |-> NoProfile,          \* AuthContext
   currentPage |-> "signin",       \* App
   selectedProjectId |-> NULL,     \* App
   projectList |-> {},             \* Projects.projects
   project |-> EmptyData,          \* ProjectDetail.project
   editing |-> FALSE,              \* ProjectDetail.editing
   projEditData |-> EmptyData,     \* ProjectDetail.editData
   formData |-> FormDefaults,      \* AddProject.formData
   modules |-> {},                 \* ModuleTable.modules
   editingId |-> NULL,             \* ModuleTable.editingId
   editData |-> EmptyData,         \* ModuleTable.editData
   saving |-> EmptyData,           \* ModuleTable.handleSaveModule awaiting the store
   showAddForm |-> FALSE,          \* ModuleTable.showAddForm
   newModule |-> NewModuleDefaults,\* ModuleTable.newModule
   userList |-> {},                \* Members.users
   userEditingId |-> NULL,         \* Members.editingId
   userEditData |-> EmptyData,     \* Members.editData
   showAddUser |-> FALSE,          \* Members.showAddForm
   newUser |-> NewUserDefaults,    \* Members.newUser
   signUpData |-> NewUserDefaults, \* SignUp.formData
   signUpRoles |-> {},             \* SignUp.roles
   signUpError |-> FALSE,          \* SignUp.error is set
   toast |-> "none"]               \* useToast: the type of the last toast

NoRequest == [by |-> NULL, table |-> NULL, op |-> "none", id |-> NULL, payload |-> EmptyData]

----------------------------------------------------------------------------
(* SpecPolicy: the access decisions as pure functions.  Init draws the     *)
(* records (assignee of the module, member rows); each action evaluates    *)
(* one decision for one actor and records it; one evaluation per           *)
(* behaviour.                                                              *)

Actors == UserIds \cup {NULL}

\* useAuth().profile of a signed-in actor: their users row
ProfileOf(a) == IF a = NULL THEN NoProfile ELSE CHOOSE u \in users : u.id = a

NoDecision ==
  [op |-> "none", actor |-> NULL, field |-> NULL, target |-> NULL, allowed |-> FALSE]


MemberSets ==
  {ms \in SUBSET {MemberRow(p, u) : p \in ProjectIds, u \in UserIds} :
     Cardinality(ms) <= MaxMembers}

InitPolicy ==
  /\ users = {UserRow(u) : u \in UserIds}
  /\ projects = {ProjectRow(p, "u_admin") : p \in ProjectIds}
  /\ project_members \in MemberSets
  /\ \E dev \in Actors :
       project_modules = {[ModuleRow("m1", "p1") EXCEPT !.assigned_dev_id = dev]}
  /\ auth_users = {u.auth_id : u \in users}
  /\ now = 0
  /\ decision = NoDecision
  /\ ui = [s \in Sessions |-> SignedOut]
  /\ sent = NoRequest
  /\ client = ClientReady

\* the presentation layer renders a cell of module m for actor a
EvalCanEditField(a, f, m) ==
  /\ decision = NoDecision
  /\ decision' = [op |-> "canEditField", actor |-> a, field |-> f, target |-> m.id,
                  allowed |-> canEditField(ProfileOf(a), f, m)]
  /\ UNCHANGED <<store, ui, sent, client>>

\* the store decides whether an update of field f of module m by a is applied
EvalModulesUpdate(a, f, m) ==
  /\ decision = NoDecision
  /\ decision' = [op |-> "update", actor |-> a, field |-> f, target |-> m.id,
                  allowed |-> ModulesUpdateReaches(a, m)]
  /\ UNCHANGED <<store, ui, sent, client>>

\* Projects.fetchProjects by actor a: the projects rows the store returns
EvalFetchProjects(a) ==
  /\ decision = NoDecision
  /\ decision' = [op |-> "fetchProjects", actor |-> a, field |-> NULL, target |-> NULL,
                  allowed |-> TRUE, rows |-> {r.id : r \in FetchedProjects(a)}]
  /\ UNCHANGED <<store, ui, sent, client>>

\* ModuleTable.fetchModules of project p by actor a
EvalFetchModules(a, p) ==
  /\ decision = NoDecision
  /\ decision' = [op |-> "fetchModules", actor |-> a, field |-> NULL, target |-> p,
                  allowed |-> TRUE, rows |-> {r.id : r \in FetchedModules(a, p)}]
  /\ UNCHANGED <<store, ui, sent, client>>

\* RoleProtected with the list allowed is rendered for actor a
EvalRoleProtected(a, allowed) ==
  /\ decision = NoDecision
  /\ decision' = [op |-> "RoleProtected", actor |-> a, field |-> NULL, target |-> NULL,
                  allowed |-> RoleProtected(ProfileOf(a), allowed), roles |-> allowed]
  /\ UNCHANGED <<store, ui, sent, client>>

\* the Sidebar is rendered for actor a: the menu items it offers
EvalFilteredItems(a) ==
  /\ decision = NoDecision
  /\ decision' = [op |-> "filteredItems", actor |-> a, field |-> NULL, target |-> NULL,
                  allowed |-> TRUE, rows |-> filteredItems(ProfileOf(a))]
  /\ UNCHANGED <<store, ui, sent, client>>

NextPolicy ==
  \E a \in Actors :
    \/ \E allowed \in SUBSET Roles : EvalRoleProtected(a, allowed)
    \/ EvalFilteredItems(a)
    \/ \E m \in project_modules, f \in Fields : EvalCanEditField(a, f, m)
    \/ \E m \in project_modules, f \in Fields : EvalModulesUpdate(a, f, m)
    \/ EvalFetchProjects(a)
    \/ \E p \in ProjectIds : EvalFetchModules(a, p)

SpecPolicy == InitPolicy /\ [][NextPolicy]_vars

----------------------------------------------------------------------------
(* ModuleTable: the component of the project detail page that lists and    *)
(* edits the modules of project selectedProjectId.                         *)

\* the columns renderEditableCell is called for (notes has no column)
RenderedFields == Fields \ {"notes"}

\* ModuleTable.fetchUsers: the options of the assigned developer select
AssignableUsers == {u.id : u \in {r \in users : r.role \in {"dev", "lead"}}}

\* the values the input rendered for a field can produce
InputValues(f) ==
  CASE f \in {"module_name", "platform_stack", "sprint", "eta"} -> {"t0", "t1"}
    [] f \in {"design_locked_date", "dev_start_date", "self_qa_date",
              "lead_signoff_date", "pm_review_date"} -> {"d1"}
    [] f = "assigned_dev_id" -> AssignableUsers
    [] f = "status" -> ProjectStatus
    [] f = "cto_review_status" -> ReviewStatus
    \* a text input; the column's enum type admits these texts only, a save
    \* of any other text fails
    [] f = "client_ready_status" -> ReviewStatus

\* auth.uid() of the requests a session sends
Uid(s) == ui[s].profile.auth_id

\* the ModuleTable of session s is rendered
ModuleTableMounted(s) ==
  /\ ui[s].profile # NoProfile
  /\ ui[s].currentPage = "project-detail"
  /\ ui[s].project # EmptyData

\* the row of the list that is being edited
EditedRow(s) == CHOOSE m \in ui[s].modules : m.id = ui[s].editingId

\* the fields in which the edited values differ from the listed row
ChangedFields(row, data) == {f \in Fields : data[f] # row[f]}

\* the Edit button of a row
handleEditModule(s, m) ==
  /\ ModuleTableMounted(s)
  /\ m \in ui[s].modules
  /\ ui[s].editingId # m.id
  /\ ui' = [ui EXCEPT ![s].editingId = m.id, ![s].editData = m]
  /\ UNCHANGED <<store, decision, sent, client>>

\* onChange of the input renderEditableCell renders for an editable field
ChangeEditField(s, f, v) ==
  /\ ModuleTableMounted(s)
  /\ ui[s].editingId # NULL
  /\ \E m \in ui[s].modules : m.id = ui[s].editingId
  /\ f \in RenderedFields
  /\ canEditField(ui[s].profile, f, EditedRow(s))
  /\ v \in InputValues(f)
  /\ ui[s].editData[f] # v
  /\ Cardinality(ChangedFields(EditedRow(s), [ui[s].editData EXCEPT ![f] = v])) <= MaxChanges
  /\ ui' = [ui EXCEPT ![s].editData = [@ EXCEPT ![f] = v]]
  /\ UNCHANGED <<store, decision, sent, client>>

\* the X button of the row that is being edited: setEditingId(null)
CancelEditModule(s) ==
  /\ ModuleTableMounted(s)
  /\ ui[s].editingId # NULL
  /\ \E m \in ui[s].modules : m.id = ui[s].editingId
  /\ ui' = [ui EXCEPT ![s].editingId = NULL]
  /\ UNCHANGED <<store, decision, sent, client>>

\* an update that leaves a column alone when the payload holds no value for it
UpdatedModule_SkipsNulls(row, payload) ==
  [f \in DOMAIN row |->
     IF f \in DOMAIN payload /\ payload[f] # NULL THEN payload[f] ELSE row[f]]

\* UPDATE ... SET: the columns of the payload replace those of the row
UpdatedModule(row, payload) ==
  [f \in DOMAIN row |-> IF f \in DOMAIN payload THEN payload[f] ELSE row[f]]

\* the rows an UPDATE ... WHERE id = x sent by uid reaches
UpdateTargets(uid, x) ==
  {r \in project_modules : r.id = x /\ ModulesUpdateReaches(uid, r)}

\* a save whose catch also closes the edit session
handleSaveModule_ErrorClosesEdit(s) ==
  /\ ModuleTableMounted(s)
  /\ ui[s].editingId # NULL
  /\ \E m \in ui[s].modules : m.id = ui[s].editingId
  /\ now < MaxTime
  /\ sent' = [by |-> s, table |-> "project_modules", op |-> "update",
              id |-> ui[s].editingId, payload |-> ui[s].editData]
  /\ \E failure \in BOOLEAN :
       LET targets == UpdateTargets(Uid(s), ui[s].editingId)
           \* the new row violates the policy (WITH CHECK defaults to USING)
           rejected == targets # {} /\ ~ModulesUpdatePolicy(Uid(s), ui[s].editData)
       IN IF failure \/ rejected
          THEN \* catch: the error toast; the edit session stays open
               /\ ui' = [ui EXCEPT ![s].toast = "error",
                                   ![s].editingId = NULL,
                                   ![s].editData = EmptyData]
               /\ UNCHANGED store
          ELSE /\ project_modules' =
                    IF targets = {} THEN project_modules
                    ELSE (project_modules \ targets)
                           \cup {UpdatedModule(r, ui[s].editData) : r \in targets}
               /\ now' = IF targets = {} THEN now ELSE now + 1
               /\ UNCHANGED <<users, projects, project_members, auth_users>>
               /\ ui' = [ui EXCEPT
                           ![s].editingId = NULL,
                           ![s].editData = EmptyData,
                           ![s].modules =
                              {r \in project_modules' :
                                 /\ r.project_id = ui[s].selectedProjectId
                                 /\ ModulesSelectPolicy(Uid(s), r)},
                           ![s].toast = "success"]
  /\ UNCHANGED <<decision, client>>

\* the Save button: update({...editData, updated_at}).eq('id', editingId)
handleSaveModule(s) ==
  /\ ModuleTableMounted(s)
  /\ ui[s].editingId # NULL
  /\ \E m \in ui[s].modules : m.id = ui[s].editingId
  /\ now < MaxTime
  /\ sent' = [by |-> s, table |-> "project_modules", op |-> "update",
              id |-> ui[s].editingId, payload |-> ui[s].editData]
  /\ \E failure \in BOOLEAN :
       LET targets == UpdateTargets(Uid(s), ui[s].editingId)
           \* the new row violates the policy (WITH CHECK defaults to USING)
           rejected == targets # {} /\ ~ModulesUpdatePolicy(Uid(s), ui[s].editData)
       IN IF failure \/ rejected
          THEN \* catch: the error toast; the edit session stays open
               /\ ui' = [ui EXCEPT ![s].toast = "error"]
               /\ UNCHANGED store
          ELSE /\ project_modules' =
                    IF targets = {} THEN project_modules
                    ELSE (project_modules \ targets)
                           \cup {UpdatedModule(r, ui[s].editData) : r \in targets}
               /\ now' = IF targets = {} THEN now ELSE now + 1
               /\ UNCHANGED <<users, projects, project_members, auth_users>>
               /\ ui' = [ui EXCEPT
                           ![s].editingId = NULL,
                           ![s].editData = EmptyData,
                           ![s].modules =
                              {r \in project_modules' :
                                 /\ r.project_id = ui[s].selectedProjectId
                                 /\ ModulesSelectPolicy(Uid(s), r)},
                           ![s].toast = "success"]
  /\ UNCHANGED <<decision, client>>

\* the Add Module button
OpenAddForm(s) ==
  /\ ModuleTableMounted(s)
  /\ canAddModule(ui[s].profile)
  /\ ~ui[s].showAddForm
  /\ ui' = [ui EXCEPT ![s].showAddForm = TRUE]
  /\ UNCHANGED <<store, decision, sent, client>>

\* the Cancel button of the add form
CloseAddForm(s) ==
  /\ ModuleTableMounted(s)
  /\ ui[s].showAddForm
  /\ ui' = [ui EXCEPT ![s].showAddForm = FALSE]
  /\ UNCHANGED <<store, decision, sent, client>>

\* onChange of the three inputs of the add form
ChangeNewModule(s, f, v) ==
  /\ ModuleTableMounted(s)
  /\ ui[s].showAddForm
  /\ f \in {"module_name", "platform_stack", "sprint"}
  /\ v \in {"", "t1"}
  /\ ui[s].newModule[f] # v
  /\ Cardinality({g \in {"module_name", "platform_stack", "sprint"} :
                    [ui[s].newModule EXCEPT ![f] = v][g] # ""}) <= MaxChanges
  /\ ui' = [ui EXCEPT ![s].newModule = [@ EXCEPT ![f] = v]]
  /\ UNCHANGED <<store, decision, sent, client>>

\* the ids the store has not given to a module yet
FreeModuleIds == ModuleIds \ {r.id : r \in project_modules}

\* the row the store makes of an insert payload
InsertedModule(m, payload) ==
  [ModuleRow(m, payload.project_id) EXCEPT
     !.module_name = payload.module_name,
     !.platform_stack = payload.platform_stack,
     !.sprint = payload.sprint,
     !.status = payload.status,
     !.cto_review_status = payload.cto_review_status,
     !.client_ready_status = payload.client_ready_status]

\* the Add Module button of the add form: insert({...newModule, project_id})
handleAddModule(s) ==
  /\ ModuleTableMounted(s)
  /\ ui[s].showAddForm
  /\ now < MaxTime
  /\ FreeModuleIds # {}
  /\ LET payload == [module_name |-> ui[s].newModule.module_name,
                     platform_stack |-> ui[s].newModule.platform_stack,
                     sprint |-> ui[s].newModule.sprint,
                     status |-> ui[s].newModule.status,
                     cto_review_status |-> ui[s].newModule.cto_review_status,
                     client_ready_status |-> ui[s].newModule.client_ready_status,
                     project_id |-> ui[s].selectedProjectId]
         m == IF "m1" \in FreeModuleIds THEN "m1" ELSE "m2"
     IN /\ sent' = [by |-> s, table |-> "project_modules", op |-> "insert",
                    id |-> NULL, payload |-> payload]
        /\ \E failure \in BOOLEAN :
             IF \/ failure
                \/ ~ModulesInsertPolicy(Uid(s))
                \* project_id REFERENCES projects(id)
                \/ \A p \in projects : p.id # payload.project_id
             THEN /\ ui' = [ui EXCEPT ![s].toast = "error"]
                  /\ UNCHANGED store
             ELSE /\ project_modules' = project_modules \cup {InsertedModule(m, payload)}
                  /\ now' = now + 1
                  /\ UNCHANGED <<users, projects, project_members, auth_users>>
                  /\ ui' = [ui EXCEPT
                              ![s].newModule = NewModuleDefaults,
                              ![s].showAddForm = FALSE,
                              ![s].modules =
                                 {r \in project_modules' :
                                    /\ r.project_id = ui[s].selectedProjectId
                                    /\ ModulesSelectPolicy(Uid(s), r)},
                              ![s].toast = "success"]
  /\ UNCHANGED <<decision, client>>

\* the Delete button of a row (confirmed): delete().eq('id', moduleId)
handleDeleteModule(s, m) ==
  /\ ModuleTableMounted(s)
  /\ canDeleteModule(ui[s].profile)
  /\ m \in ui[s].modules
  /\ ui[s].editingId # m.id
  /\ now < MaxTime
  /\ sent' = [by |-> s, table |-> "project_modules", op |-> "delete",
              id |-> m.id, payload |-> EmptyData]
  /\ \E failure \in BOOLEAN :
       IF failure
       THEN /\ ui' = [ui EXCEPT ![s].toast = "error"]
            /\ UNCHANGED store
       ELSE LET targets == {r \in project_modules :
                              /\ r.id = m.id
                              /\ ModulesSelectPolicy(Uid(s), r)
                              /\ ModulesDeletePolicy(Uid(s))}
            IN /\ project_modules' = project_modules \ targets
               /\ now' = IF targets = {} THEN now ELSE now + 1
               /\ UNCHANGED <<users, projects, project_members, auth_users>>
               /\ ui' = [ui EXCEPT
                           ![s].modules =
                              {r \in project_modules' :
                                 /\ r.project_id = ui[s].selectedProjectId
                                 /\ ModulesSelectPolicy(Uid(s), r)},
                           ![s].toast = "success"]
  /\ UNCHANGED <<decision, client>>

\* ProjectDetail of project p as it is once its fetches have completed
ProjectDetailLoaded(profile, p) ==
  [SignedOut EXCEPT
     !.profile = profile,
     !.currentPage = "project-detail",
     !.selectedProjectId = p.id,
     !.project = p,
     !.projEditData = p,
     !.modules = FetchedModules(profile.auth_id, p.id)]

\* one session has opened project p1, which it may read; the session's user
\* is a member of p1 or not, and module m1 is assigned to u_dev or to nobody
InitModules ==
  /\ users = {UserRow(u) : u \in UserIds}
  /\ projects = {ProjectRow(p, "u_admin") : p \in ProjectIds}
  /\ \E dev \in {NULL, "u_dev"} :
       project_modules = {[ModuleRow("m1", "p1") EXCEPT !.assigned_dev_id = dev]}
  /\ auth_users = {u.auth_id : u \in users}
  /\ now = MaxTime - 1
  /\ decision = NoDecision
  /\ sent = NoRequest
  /\ client = ClientReady
  /\ \E u \in users, p \in projects :
       /\ p.id = "p1"
       /\ project_members \in {{}, {MemberRow(p.id, u.id)}}
       /\ ProjectsSelectPolicy(u.auth_id, p)
       /\ ui = [s \in Sessions |->
                  IF s = "s1" THEN ProjectDetailLoaded(u, p) ELSE SignedOut]

NextModules ==
  \E s \in Sessions :
    \/ \E m \in ui[s].modules : handleEditModule(s, m)
    \/ \E f \in RenderedFields : \E v \in InputValues(f) : ChangeEditField(s, f, v)
    \/ CancelEditModule(s)
    \/ handleSaveModule(s)
    \/ OpenAddForm(s)
    \/ CloseAddForm(s)
    \/ \E f \in {"module_name", "platform_stack", "sprint"}, v \in {"", "t1"} :
         ChangeNewModule(s, f, v)
    \/ handleAddModule(s)
    \/ \E m \in ui[s].modules : handleDeleteModule(s, m)

SpecModules == InitModules /\ [][NextModules]_vars

----------------------------------------------------------------------------
(* SpecEdits: two sessions have the project detail page of p1 open and     *)
(* edit its module m1 side by side.                                        *)

\* the columns the two sessions edit
EditFields == {"eta", "sprint", "cto_review_status", "dev_start_date", "status"}

\* the two developers are members of p1, the pm is a member or not; module
\* m1 is assigned to u_dev; session s1 is the pm's or the assigned
\* developer's, session s2 the cto's or the other developer's, and both
\* have loaded the page
InitEdits ==
  /\ users = {UserRow(u) : u \in UserIds}
  /\ projects = {ProjectRow("p1", "u_admin")}
  /\ project_modules = {[ModuleRow("m1", "p1") EXCEPT !.assigned_dev_id = "u_dev"]}
  /\ \E pmIsMember \in BOOLEAN :
       project_members =
         {MemberRow("p1", "u_dev"), MemberRow("p1", "u_dev2")}
           \cup (IF pmIsMember THEN {MemberRow("p1", "u_pm")} ELSE {})
  /\ auth_users = {u.auth_id : u \in users}
  /\ now = 0
  /\ decision = NoDecision
  /\ sent = NoRequest
  /\ client = ClientReady
  /\ \E u1 \in {"u_pm", "u_dev"}, u2 \in {"u_cto", "u_dev2"} :
       ui = [s \in Sessions |->
               ProjectDetailLoaded(UserRow(IF s = "s1" THEN u1 ELSE u2),
                                   ProjectRow("p1", "u_admin"))]

NextEdits ==
  \E s \in Sessions :
    \/ \E m \in ui[s].modules : handleEditModule(s, m)
    \/ \E f \in EditFields : \E v \in InputValues(f) : ChangeEditField(s, f, v)
    \/ CancelEditModule(s)
    \/ handleSaveModule(s)

SpecEdits == InitEdits /\ [][NextEdits]_vars

----------------------------------------------------------------------------
(* SpecInflight: handleSaveModule as the two steps its await makes of it.  *)
(* The page stays usable while the update is on its way: the buttons of    *)
(* the other rows are enabled, and nothing disables those of the saved row.*)

\* the Save button up to the await: the update is sent
SaveModuleSent(s) ==
  /\ ModuleTableMounted(s)
  /\ ui[s].editingId # NULL
  /\ \E m \in ui[s].modules : m.id = ui[s].editingId
  /\ ui[s].saving = EmptyData
  /\ now < MaxTime
  /\ sent' = [by |-> s, table |-> "project_modules", op |-> "update",
              id |-> ui[s].editingId, payload |-> ui[s].editData]
  /\ ui' = [ui EXCEPT ![s].saving = [id |-> ui[s].editingId, payload |-> ui[s].editData]]
  /\ UNCHANGED <<store, decision, client>>

\* the store's answer and the rest of handleSaveModule after the await
SaveModuleDone(s) ==
  /\ ModuleTableMounted(s)
  /\ ui[s].saving # EmptyData
  /\ \E failure \in BOOLEAN :
       LET targets == UpdateTargets(Uid(s), ui[s].saving.id)
           rejected == targets # {} /\ ~ModulesUpdatePolicy(Uid(s), ui[s].saving.payload)
       IN IF failure \/ rejected
          THEN /\ ui' = [ui EXCEPT ![s].toast = "error", ![s].saving = EmptyData]
               /\ UNCHANGED store
          ELSE /\ project_modules' =
                    IF targets = {} THEN project_modules
                    ELSE (project_modules \ targets)
                           \cup {UpdatedModule(r, ui[s].saving.payload) : r \in targets}
               /\ now' = IF targets = {} THEN now ELSE now + 1
               /\ UNCHANGED <<users, projects, project_members, auth_users>>
               /\ ui' = [ui EXCEPT
                           ![s].saving = EmptyData,
                           ![s].editingId = NULL,
                           ![s].editData = EmptyData,
                           ![s].modules =
                              {r \in project_modules' :
                                 /\ r.project_id = ui[s].selectedProjectId
                                 /\ ModulesSelectPolicy(Uid(s), r)},
                           ![s].toast = "success"]
  /\ UNCHANGED <<decision, sent, client>>

\* project p1 has the modules m1 and m2; session s1 is an admin's or that of
\* a pm who is a member, and has loaded the page
InitInflight ==
  /\ users = {UserRow(u) : u \in UserIds}
  /\ projects = {ProjectRow("p1", "u_admin")}
  /\ project_modules = {ModuleRow(m, "p1") : m \in ModuleIds}
  /\ project_members = {MemberRow("p1", "u_pm")}
  /\ auth_users = {u.auth_id : u \in users}
  /\ now = MaxTime - 1
  /\ decision = NoDecision
  /\ sent = NoRequest
  /\ client = ClientReady
  /\ \E u \in {"u_admin", "u_pm"} :
       ui = [s \in Sessions |->
               IF s = "s1"
               THEN ProjectDetailLoaded(UserRow(u), ProjectRow("p1", "u_admin"))
               ELSE SignedOut]

NextInflight ==
  \E s \in Sessions :
    \/ \E m \in ui[s].modules : handleEditModule(s, m)
    \/ \E f \in EditFields : \E v \in InputValues(f) : ChangeEditField(s, f, v)
    \/ CancelEditModule(s)
    \/ SaveModuleSent(s)
    \/ SaveModuleDone(s)

SpecInflight == InitInflight /\ [][NextInflight]_vars

----------------------------------------------------------------------------
(* The foreign keys of the schema when a project row is deleted. No policy *)
(* lets a signed-in user delete a project and no page sends such a delete: *)
(* the row is removed by the owner of the database.                        *)

\* a delete of a project that leaves the rows referencing it in place
DeleteProject_NoCascade(p) ==
  /\ p \in projects
  /\ now < MaxTime
  /\ projects' = projects \ {p}
  /\ now' = now + 1
  /\ UNCHANGED <<users, project_modules, project_members, auth_users, decision, ui, sent, client>>

\* DELETE FROM projects WHERE id = p.id, with project_id ... ON DELETE CASCADE
\* of project_modules and of project_members
DeleteProject(p) ==
  /\ p \in projects
  /\ now < MaxTime
  /\ projects' = projects \ {p}
  /\ project_modules' = {m \in project_modules : m.project_id # p.id}
  /\ project_members' = {r \in project_members : r.project_id # p.id}
  /\ now' = now + 1
  /\ UNCHANGED <<users, auth_users, decision, ui, sent, client>>

----------------------------------------------------------------------------
(* SpecProjects: App navigation, Projects, AddProject and ProjectDetail of *)
(* one signed-in session.                                                  *)

\* the components of a page are unmounted: their state is lost; the state
\* of App (selectedProjectId) and of the providers stays
Unmounted(view) ==
  [SignedOut EXCEPT
     !.profile = view.profile,
     !.selectedProjectId = view.selectedProjectId,
     !.toast = view.toast]

\* setCurrentPage(page) and the mount of the page's component; Projects runs
\* fetchProjects and Members runs fetchUsers, whose catch leaves the list empty
OpenPage(view, page, failure) ==
  [Unmounted(view) EXCEPT
     !.currentPage = page,
     !.projectList = IF page = "projects" /\ ~failure
                     THEN FetchedProjects(view.profile.auth_id) ELSE {},
     !.userList = IF /\ page = "members"
                     /\ RoleProtected(view.profile, PageAllowedRoles("members"))
                     /\ ~failure
                  THEN FetchedUsers(view.profile.auth_id) ELSE {}]

\* Sidebar: a click on one of the filtered menu items
onPageChange(s, page) ==
  /\ ui[s].profile # NoProfile
  /\ page \in filteredItems(ui[s].profile)
  /\ page # ui[s].currentPage
  /\ \E failure \in BOOLEAN :
       ui' = [ui EXCEPT ![s] = OpenPage(ui[s], page, failure)]
  /\ UNCHANGED <<store, decision, sent, client>>

\* Projects: View Details of a listed project; ProjectDetail mounts and
\* fetchProjectDetails reads the row with .single()
onViewProject(s, p) ==
  /\ ui[s].profile # NoProfile
  /\ ui[s].currentPage = "projects"
  /\ p \in ui[s].projectList
  /\ LET rows == {r \in FetchedProjects(Uid(s)) : r.id = p.id}
     IN ui' = [ui EXCEPT ![s] =
                 IF rows = {}
                 THEN [Unmounted(ui[s]) EXCEPT
                         !.currentPage = "project-detail",
                         !.selectedProjectId = p.id,
                         !.toast = "error"]
                 ELSE [ProjectDetailLoaded(ui[s].profile, CHOOSE r \in rows : TRUE)
                         EXCEPT !.toast = ui[s].toast]]
  /\ UNCHANGED <<store, decision, sent, client>>

\* the AddProject form is rendered inside its RoleProtected wrapper
AddProjectRendered(s) ==
  /\ ui[s].currentPage = "add-project"
  /\ RoleProtected(ui[s].profile, PageAllowedRoles("add-project"))

\* ProjectDetail is rendered with a loaded project
ProjectDetailMounted(s) ==
  /\ ui[s].profile # NoProfile
  /\ ui[s].currentPage = "project-detail"
  /\ ui[s].project # EmptyData

\* Back to Projects, of ProjectDetail and of AddProject
onBack(s) ==
  /\ ui[s].profile # NoProfile
  /\ \/ ui[s].currentPage = "project-detail"
     \/ AddProjectRendered(s)
  /\ \E failure \in BOOLEAN :
       ui' = [ui EXCEPT ![s] = OpenPage(ui[s], "projects", failure)]
  /\ UNCHANGED <<store, decision, sent, client>>

\* AddProject.handleInputChange
handleInputChange(s, field, value) ==
  /\ AddProjectRendered(s)
  /\ ui[s].formData[field] # value
  /\ ui' = [ui EXCEPT ![s].formData[field] = value]
  /\ UNCHANGED <<store, decision, sent, client>>

\* the users whose rows of the member list are clicked
FormUserIds == {"u_dev", "u_pm"}

\* a toggle that adds the user whether or not the list holds it
toggleMember_AlwaysAppends(s, userId) ==
  /\ AddProjectRendered(s)
  /\ LET members == ui[s].formData.members
         toggled == Append(members, userId)
     IN /\ Len(toggled) <= MaxFormMembers
        /\ ui' = [ui EXCEPT ![s].formData.members = toggled]
  /\ UNCHANGED <<store, decision, sent, client>>

\* AddProject.toggleMember
toggleMember(s, userId) ==
  /\ AddProjectRendered(s)
  /\ LET members == ui[s].formData.members
         includes == \E i \in 1..Len(members) : members[i] = userId
         toggled == IF includes
                    THEN SelectSeq(members, LAMBDA id : id # userId)
                    ELSE Append(members, userId)
     IN /\ Len(toggled) <= MaxFormMembers
        /\ ui' = [ui EXCEPT ![s].formData.members = toggled]
  /\ UNCHANGED <<store, decision, sent, client>>

FreeProjectIds == ProjectIds \ {r.id : r \in projects}

\* AddProject.handleSubmit: insert the project and read it back, then insert
\* the member rows; the inputs title, stack and sprint are required
handleSubmit(s) ==
  /\ AddProjectRendered(s)
  /\ ui[s].formData.title # "" /\ ui[s].formData.stack # "" /\ ui[s].formData.sprint # ""
  /\ now < MaxTime
  /\ FreeProjectIds # {}
  /\ \E uid \in {Uid(s)}, view \in {ui[s]}, projectFailure \in BOOLEAN, membersFailure \in BOOLEAN :
       LET fd == view.formData
           p == IF "p1" \in FreeProjectIds THEN "p1" ELSE "p2"
           row == [id |-> p, title |-> fd.title, stack |-> fd.stack,
                   sprint |-> fd.sprint, notes |-> fd.notes, status |-> fd.status,
                   created_by |-> view.profile.id]
           memberInserts == {MemberRow(p, fd.members[i]) : i \in 1..Len(fd.members)}
           projectRequest == [by |-> s, table |-> "projects", op |-> "insert",
                              id |-> p, payload |-> row]
           membersRequest == [by |-> s, table |-> "project_members", op |-> "insert",
                              id |-> p, payload |-> [id |-> p, user_ids |-> fd.members]]
           \* the insert policy, and the select policy for .select().single()
           projectError == \/ projectFailure
                           \/ ~ProjectsInsertPolicy(uid)
                           \/ ~ProjectsSelectPolicy(uid, row)
           membersError ==
             \/ membersFailure
             \/ ~MembersManagePolicy(uid)
             \* UNIQUE(project_id, user_id)
             \/ \E i \in 1..Len(fd.members), j \in 1..Len(fd.members) :
                  i # j /\ fd.members[i] = fd.members[j]
             \/ memberInserts \cap project_members # {}
             \* user_id REFERENCES users(id)
             \/ \E i \in 1..Len(fd.members) : \A u \in users : u.id # fd.members[i]
       IN IF projectError
          THEN /\ sent' = projectRequest
               /\ ui' = [ui EXCEPT ![s].toast = "error"]
               /\ UNCHANGED store
          ELSE /\ projects' = projects \cup {row}
               /\ now' = now + 1
               /\ UNCHANGED <<users, project_modules, auth_users>>
               /\ IF memberInserts = {}
                  THEN /\ sent' = projectRequest
                       /\ UNCHANGED project_members
                       /\ ui' = [ui EXCEPT ![s] =
                                   OpenPage([view EXCEPT !.toast = "success"],
                                            "projects", membersFailure)']
                  ELSE /\ sent' = membersRequest
                       /\ IF membersError
                          THEN /\ UNCHANGED project_members
                               /\ ui' = [ui EXCEPT ![s].toast = "error"]
                          ELSE /\ project_members' = project_members \cup memberInserts
                               /\ \E fetchFailure \in BOOLEAN :
                                    ui' = [ui EXCEPT ![s] =
                                             OpenPage([view EXCEPT !.toast = "success"],
                                                      "projects", fetchFailure)']
  /\ UNCHANGED <<decision, client>>

\* ProjectDetail: the Edit Project button
EditProject(s) ==
  /\ ProjectDetailMounted(s)
  /\ canEditProject(ui[s].profile)
  /\ ~ui[s].editing
  /\ ui' = [ui EXCEPT ![s].editing = TRUE]
  /\ UNCHANGED <<store, decision, sent, client>>

\* ProjectDetail: the Cancel button
CancelEditProject(s) ==
  /\ ProjectDetailMounted(s)
  /\ canEditProject(ui[s].profile)
  /\ ui[s].editing
  /\ ui' = [ui EXCEPT ![s].editing = FALSE]
  /\ UNCHANGED <<store, decision, sent, client>>

ProjectFields == {"title", "stack", "sprint", "status", "notes"}

ProjectInputValues(f) == IF f = "status" THEN ProjectStatus ELSE {"t0", "t1"}

\* ProjectDetail: an input of the edit mode
ChangeProjectField(s, f, v) ==
  /\ ProjectDetailMounted(s)
  /\ ui[s].editing
  /\ ui[s].projEditData[f] # v
  /\ LET data == [ui[s].projEditData EXCEPT ![f] = v]
     IN /\ Cardinality({g \in ProjectFields : data[g] # ui[s].project[g]}) <= MaxChanges
        /\ ui' = [ui EXCEPT ![s].projEditData = data]
  /\ UNCHANGED <<store, decision, sent, client>>

\* ProjectDetail.handleSaveProject, behind the Save Changes button
handleSaveProject(s) ==
  /\ ProjectDetailMounted(s)
  /\ canEditProject(ui[s].profile)
  /\ ui[s].editing
  /\ now < MaxTime
  /\ LET data == ui[s].projEditData
         payload == [id |-> ui[s].selectedProjectId, title |-> data.title,
                     stack |-> data.stack, sprint |-> data.sprint,
                     notes |-> data.notes, status |-> data.status]
         targets == {r \in projects :
                       r.id = ui[s].selectedProjectId /\ ProjectsUpdateReaches(Uid(s), r)}
         updated == {[r EXCEPT !.title = data.title, !.stack = data.stack,
                               !.sprint = data.sprint, !.notes = data.notes,
                               !.status = data.status] : r \in targets}
     IN /\ sent' = [by |-> s, table |-> "projects", op |-> "update",
                    id |-> ui[s].selectedProjectId, payload |-> payload]
        /\ \E failure \in BOOLEAN :
             IF failure
             THEN /\ ui' = [ui EXCEPT ![s].toast = "error"]
                  /\ UNCHANGED store
             ELSE /\ projects' = (projects \ targets) \cup updated
                  /\ now' = IF targets = {} THEN now ELSE now + 1
                  /\ UNCHANGED <<users, project_members, project_modules, auth_users>>
                  /\ ui' = [ui EXCEPT ![s].project = data,
                                      ![s].editing = FALSE,
                                      ![s].toast = "success"]
  /\ UNCHANGED <<decision, client>>

\* one user is signed in and sees the Dashboard; the store holds project p1
\* with module m1, and the user is a member of p1 or not
InitProjects ==
  /\ users = {UserRow(u) : u \in UserIds}
  /\ projects = {ProjectRow("p1", "u_admin")}
  /\ project_modules = {ModuleRow("m1", "p1")}
  /\ auth_users = {u.auth_id : u \in users}
  /\ now = MaxTime - 1
  /\ decision = NoDecision
  /\ sent = NoRequest
  /\ client = ClientReady
  /\ \E u \in users :
       /\ project_members \in {{}, {MemberRow("p1", u.id)}}
       /\ ui = [s \in Sessions |->
                  IF s = "s1"
                  THEN [SignedOut EXCEPT !.profile = u, !.currentPage = "dashboard"]
                  ELSE SignedOut]

NextProjects ==
  \E s \in Sessions :
    \/ \E page \in DOMAIN menuItems : onPageChange(s, page)
    \/ \E p \in ui[s].projectList : onViewProject(s, p)
    \/ onBack(s)
    \/ \E f \in {"title", "stack", "sprint", "notes"}, v \in {"", "t1"} :
         handleInputChange(s, f, v)
    \/ \E v \in ProjectStatus : handleInputChange(s, "status", v)
    \/ \E u \in FormUserIds : toggleMember(s, u)
    \/ handleSubmit(s)
    \/ EditProject(s)
    \/ CancelEditProject(s)
    \/ \E f \in ProjectFields : \E v \in ProjectInputValues(f) : ChangeProjectField(s, f, v)
    \/ handleSaveProject(s)

SpecProjects == InitProjects /\ [][NextProjects]_vars

----------------------------------------------------------------------------
(* SpecMembers: the Members page (user cards, edit, add, delete) next to   *)
(* the navigation of App and the delete button of ModuleTable.             *)

\* the Members page is rendered inside its RoleProtected wrapper
MembersRendered(s) ==
  /\ ui[s].currentPage = "members"
  /\ RoleProtected(ui[s].profile, PageAllowedRoles("members"))

\* the card of the list that is being edited is rendered
EditedUserListed(s) == \E u \in ui[s].userList : u.id = ui[s].userEditingId

\* the Edit button of a card
handleEditUser(s, u) ==
  /\ MembersRendered(s)
  /\ u \in ui[s].userList
  /\ ui[s].userEditingId # u.id
  /\ ui' = [ui EXCEPT ![s].userEditingId = u.id, ![s].userEditData = u]
  /\ UNCHANGED <<store, decision, sent, client>>

\* the name input and the role select of the card that is being edited
ChangeUserField(s, f, v) ==
  /\ MembersRendered(s)
  /\ EditedUserListed(s)
  /\ ui[s].userEditData[f] # v
  /\ LET row == CHOOSE u \in ui[s].userList : u.id = ui[s].userEditingId
         data == [ui[s].userEditData EXCEPT ![f] = v]
     IN /\ Cardinality({g \in {"name", "role"} : data[g] # row[g]}) <= MaxChanges
        /\ ui' = [ui EXCEPT ![s].userEditData = data]
  /\ UNCHANGED <<store, decision, sent, client>>

\* the X button of the card that is being edited: setEditingId(null)
CancelEditUser(s) ==
  /\ MembersRendered(s)
  /\ EditedUserListed(s)
  /\ ui' = [ui EXCEPT ![s].userEditingId = NULL]
  /\ UNCHANGED <<store, decision, sent, client>>

\* Members.handleSaveUser: update({name, role, updated_at}).eq('id', editingId)
handleSaveUser(s) ==
  /\ MembersRendered(s)
  /\ EditedUserListed(s)
  /\ now < MaxTime
  /\ \E uid \in {Uid(s)}, failure \in BOOLEAN :
       LET data == ui[s].userEditData
           targets == {r \in users : r.id = ui[s].userEditingId /\ UsersUpdatePolicy(uid, r)}
           updated == {[r EXCEPT !.name = data.name, !.role = data.role] : r \in targets}
       IN /\ sent' = [by |-> s, table |-> "users", op |-> "update",
                      id |-> ui[s].userEditingId,
                      payload |-> [id |-> ui[s].userEditingId,
                                   name |-> data.name, role |-> data.role]]
          /\ IF failure
             THEN /\ ui' = [ui EXCEPT ![s].toast = "error"]
                  /\ UNCHANGED store
             ELSE /\ users' = (users \ targets) \cup updated
                  /\ now' = IF targets = {} THEN now ELSE now + 1
                  /\ UNCHANGED <<projects, project_members, project_modules, auth_users>>
                  /\ ui' = [ui EXCEPT ![s].userEditingId = NULL,
                                      ![s].userEditData = EmptyData,
                                      ![s].userList = FetchedUsers(uid)',
                                      ![s].toast = "success"]
  /\ UNCHANGED <<decision, client>>

\* the Add User button
OpenAddUser(s) ==
  /\ MembersRendered(s)
  /\ ~ui[s].showAddUser
  /\ ui' = [ui EXCEPT ![s].showAddUser = TRUE]
  /\ UNCHANGED <<store, decision, sent, client>>

\* the Cancel button of the add-user form
CloseAddUser(s) ==
  /\ MembersRendered(s)
  /\ ui[s].showAddUser
  /\ ui' = [ui EXCEPT ![s].showAddUser = FALSE]
  /\ UNCHANGED <<store, decision, sent, client>>

NewUserFields == {"name", "email", "role", "password"}

\* the values the inputs of the add-user form can produce; the role select
\* offers "Select Role" (the empty value) and the rows of table roles
NewUserValues(f) ==
  CASE f = "name"     -> {"", "n1"}
    [] f = "email"    -> {"", "e1"}
    [] f = "password" -> {"", "pw"}
    [] f = "role"     -> {""} \cup Roles

\* onChange of the inputs of the add-user form
ChangeNewUser(s, f, v) ==
  /\ MembersRendered(s)
  /\ ui[s].showAddUser
  /\ ui[s].newUser[f] # v
  /\ LET data == [ui[s].newUser EXCEPT ![f] = v]
     IN /\ Cardinality({g \in NewUserFields : data[g] # ""}) <= MaxChanges
        /\ ui' = [ui EXCEPT ![s].newUser = data]
  /\ UNCHANGED <<store, decision, sent, client>>

\* the ids the store and the auth service have not given out yet
NewUserIds == {"u_new"}

FreeUserIds == NewUserIds \ ({r.id : r \in users} \cup auth_users)

\* Members.handleAddUser: supabase.auth.signUp, then the insert of the
\* profile row; each of the two requests can fail
handleAddUser(s) ==
  /\ MembersRendered(s)
  /\ ui[s].showAddUser
  /\ now < MaxTime
  /\ FreeUserIds # {}
  /\ \E uid \in {Uid(s)}, authFailure \in BOOLEAN, profileFailure \in BOOLEAN :
       LET a == CHOOSE x \in FreeUserIds : TRUE
           row == [id |-> a, auth_id |-> a, name |-> ui[s].newUser.name,
                   role |-> ui[s].newUser.role]
       IN IF authFailure
          THEN /\ sent' = [by |-> s, table |-> "auth.users", op |-> "signUp",
                           id |-> NULL, payload |-> EmptyData]
               /\ ui' = [ui EXCEPT ![s].toast = "error"]
               /\ UNCHANGED store
          ELSE /\ auth_users' = auth_users \cup {a}
               /\ now' = now + 1
               /\ sent' = [by |-> s, table |-> "users", op |-> "insert",
                           id |-> a, payload |-> row]
               /\ UNCHANGED <<projects, project_members, project_modules>>
               /\ IF profileFailure
                  THEN /\ UNCHANGED users
                       /\ ui' = [ui EXCEPT ![s].toast = "error"]
                  ELSE /\ users' = users \cup {row}
                       /\ ui' = [ui EXCEPT ![s].newUser = NewUserDefaults,
                                           ![s].showAddUser = FALSE,
                                           ![s].userList = FetchedUsers(uid)',
                                           ![s].toast = "success"]
  /\ UNCHANGED <<decision, client>>

\* Members.handleDeleteUser (confirmed): delete().eq('id', userId); the
\* button is not rendered on the card of the signed-in user.  The foreign
\* keys remove the member rows of the user and clear assigned_dev_id and
\* created_by; the auth identity stays.
handleDeleteUser(s, u) ==
  /\ MembersRendered(s)
  /\ u \in ui[s].userList
  /\ u.id # ui[s].profile.id
  /\ ui[s].userEditingId # u.id
  /\ now < MaxTime
  /\ sent' = [by |-> s, table |-> "users", op |-> "delete", id |-> u.id,
              payload |-> EmptyData]
  /\ \E uid \in {Uid(s)}, failure \in BOOLEAN :
       IF failure
       THEN /\ ui' = [ui EXCEPT ![s].toast = "error"]
            /\ UNCHANGED store
       ELSE LET targets == {r \in users : r.id = u.id /\ UsersDeletePolicy(uid)}
                gone == {r.id : r \in targets}
            IN /\ users' = users \ targets
               /\ project_members' = {r \in project_members : r.user_id \notin gone}
               /\ project_modules' =
                    {IF r.assigned_dev_id \in gone
                     THEN [r EXCEPT !.assigned_dev_id = NULL] ELSE r : r \in project_modules}
               /\ projects' =
                    {IF r.created_by \in gone
                     THEN [r EXCEPT !.created_by = NULL] ELSE r : r \in projects}
               /\ now' = IF targets = {} THEN now ELSE now + 1
               /\ UNCHANGED auth_users
               /\ ui' = [ui EXCEPT ![s].userList = FetchedUsers(uid)',
                                   ![s].toast = "success"]
  /\ UNCHANGED <<decision, client>>

\* the users of the store in SpecMembers
MembersUserIds == {"u_admin", "u_dev", "u_pm"}

\* one user is signed in and sees the Dashboard; the store holds project p1
\* with module m1, assigned to u_dev, who is a member of p1
InitMembers ==
  /\ users = {UserRow(u) : u \in MembersUserIds}
  /\ projects = {ProjectRow("p1", "u_admin")}
  /\ project_modules = {[ModuleRow("m1", "p1") EXCEPT !.assigned_dev_id = "u_dev"]}
  /\ project_members = {MemberRow("p1", "u_dev")}
  /\ auth_users = {u.auth_id : u \in users}
  /\ now = MaxTime - 1
  /\ decision = NoDecision
  /\ sent = NoRequest
  /\ client = ClientReady
  /\ \E u \in users :
       ui = [s \in Sessions |->
               IF s = "s1"
               THEN [SignedOut EXCEPT !.profile = u, !.currentPage = "dashboard"]
               ELSE SignedOut]

NextMembers ==
  \E s \in Sessions :
    \/ \E page \in DOMAIN menuItems : onPageChange(s, page)
    \/ \E p \in ui[s].projectList : onViewProject(s, p)
    \/ onBack(s)
    \/ \E m \in ui[s].modules : handleDeleteModule(s, m)
    \/ \E u \in ui[s].userList : handleEditUser(s, u)
    \/ \E v \in {"n0", "n1"} : ChangeUserField(s, "name", v)
    \/ \E v \in Roles : ChangeUserField(s, "role", v)
    \/ CancelEditUser(s)
    \/ handleSaveUser(s)
    \/ OpenAddUser(s)
    \/ CloseAddUser(s)
    \/ \E f \in NewUserFields : \E v \in NewUserValues(f) : ChangeNewUser(s, f, v)
    \/ handleAddUser(s)
    \/ \E u \in ui[s].userList : handleDeleteUser(s, u)

SpecMembers == InitMembers /\ [][NextMembers]_vars

----------------------------------------------------------------------------
(* SpecCascade: the rows that reference a project. Session s1 has the page *)
(* of p1 open and adds or deletes modules, session s2 is an admin's on the *)
(* add-project page, and the owner of the database deletes projects.       *)

InitCascade ==
  /\ users = {UserRow(u) : u \in UserIds}
  /\ projects = {ProjectRow("p1", "u_admin")}
  /\ project_modules = {ModuleRow("m1", "p1")}
  /\ project_members = {MemberRow("p1", "u_dev")}
  /\ auth_users = {u.auth_id : u \in users}
  /\ now = 0
  /\ decision = NoDecision
  /\ sent = NoRequest
  /\ client = ClientReady
  /\ \E u \in {"u_admin", "u_pm"} :
       ui = [s \in Sessions |->
               IF s = "s1"
               THEN ProjectDetailLoaded(UserRow(u), ProjectRow("p1", "u_admin"))
               ELSE OpenPage([SignedOut EXCEPT !.profile = UserRow("u_admin")],
                             "add-project", FALSE)]

NextCascade ==
  \/ \E p \in projects : DeleteProject(p)
  \/ \E s \in Sessions :
       \/ OpenAddForm(s)
       \/ CloseAddForm(s)
       \/ \E f \in {"module_name", "platform_stack", "sprint"}, v \in {"", "t1"} :
            ChangeNewModule(s, f, v)
       \/ handleAddModule(s)
       \/ \E m \in ui[s].modules : handleDeleteModule(s, m)
       \/ \E f \in {"title", "stack", "sprint"}, v \in {"", "t1"} :
            handleInputChange(s, f, v)
       \/ \E u \in FormUserIds : toggleMember(s, u)
       \/ handleSubmit(s)

SpecCascade == InitCascade /\ [][NextCascade]_vars

----------------------------------------------------------------------------
(* SpecStartup: the evaluation of the module lib/supabase when the page    *)
(* loads: it reads the two settings, stops with an error when one of them  *)
(* is missing, creates the client and sends the connection test.           *)

\* the values import.meta.env gives a setting: undefined (NULL), the empty
\* string, a blank string and other texts
SettingValues == {NULL, "", " ", "v1", "v2", "v3"}

\* !x is false: the value is neither undefined nor the empty string
Truthy(x) == x # NULL /\ x # ""

InitStartup ==
  /\ users = {UserRow(u) : u \in UserIds}
  /\ projects = {}
  /\ project_members = {}
  /\ project_modules = {}
  /\ auth_users = {u.auth_id : u \in users}
  /\ now = 0
  /\ decision = NoDecision
  /\ ui = [s \in Sessions |-> SignedOut]
  /\ sent = NoRequest
  /\ \E u \in SettingValues, k \in SettingValues :
       client = [url |-> u, key |-> k, state |-> "loading", log |-> "none"]

\* a start-up that tests the service URL only
LoadClientModule_ChecksUrlOnly ==
  /\ client.state = "loading"
  /\ IF ~Truthy(client.url)
     THEN client' = [client EXCEPT !.state = "failed", !.log = "missing"]
     ELSE client' = [client EXCEPT !.state = "created"]
  /\ UNCHANGED <<store, decision, ui, sent>>

\* if (!supabaseUrl || !supabaseAnonKey) throw ...; createClient(url, key)
LoadClientModule ==
  /\ client.state = "loading"
  /\ IF ~Truthy(client.url) \/ ~Truthy(client.key)
     THEN client' = [client EXCEPT !.state = "failed", !.log = "missing"]
     ELSE client' = [client EXCEPT !.state = "created"]
  /\ UNCHANGED <<store, decision, ui, sent>>

\* supabase.from('roles').select('count').limit(1): the request is sent
ConnectionTest ==
  /\ client.state = "created"
  /\ sent = NoRequest
  /\ sent' = [by |-> NULL, table |-> "roles", op |-> "select", id |-> NULL,
              payload |-> EmptyData]
  /\ UNCHANGED <<store, decision, ui, client>>

\* .then(({ data, error }) => ...): the answer is logged, nothing else
ConnectionTestDone ==
  /\ client.state = "created"
  /\ sent.table = "roles"
  /\ client.log = "none"
  /\ \E error \in BOOLEAN :
       client' = [client EXCEPT
                    !.log = IF error THEN "connection failed" ELSE "connected"]
  /\ UNCHANGED <<store, decision, ui, sent>>

NextStartup == LoadClientModule \/ ConnectionTest \/ ConnectionTestDone

SpecStartup == InitStartup /\ [][NextStartup]_vars

----------------------------------------------------------------------------
(* SpecSignUp: the sign-in / sign-up pages App renders while nobody is     *)
(* signed in, next to the add-user form of the Members page of an admin.   *)

\* policy "Anyone can insert users during signup": FOR INSERT TO public
\* WITH CHECK (true)
UsersInsertPolicy(uid, row) == TRUE

\* the list fetchRoles falls back to when table roles cannot be read or is
\* empty
FallbackRoles == {"admin", "dev", "pm", "cto", "lead", "designer"}

\* SignUp.fetchRoles: the rows of table roles (seeded with Roles), or the
\* fallback list
fetchRoles(failure) == IF failure \/ Roles = {} THEN FallbackRoles ELSE Roles

\* App: the link under the sign-in form mounts SignUp (whose effect runs
\* fetchRoles), the link under the sign-up form mounts SignIn
onToggleMode(s) ==
  /\ ui[s].profile = NoProfile
  /\ \E failure \in BOOLEAN :
       ui' = [ui EXCEPT ![s] =
                IF ui[s].currentPage = "signin"
                THEN [SignedOut EXCEPT !.currentPage = "signup",
                                       !.signUpRoles = fetchRoles(failure)]
                ELSE SignedOut]
  /\ UNCHANGED <<store, decision, sent, client>>

\* the values the inputs of the sign-up form can produce; the role select
\* offers "Select a role" (the empty value) and one option per fetched role
SignUpValues(s, f) ==
  CASE f = "name"     -> {"", "n1"}
    [] f = "email"    -> {"", "e1"}
    [] f = "password" -> {"", "pw", "secret"}
    [] f = "role"     -> {""} \cup ui[s].signUpRoles

\* SignUp.handleInputChange
SignUpInputChange(s, f, v) ==
  /\ ui[s].profile = NoProfile
  /\ ui[s].currentPage = "signup"
  /\ v \in SignUpValues(s, f)
  /\ ui[s].signUpData[f] # v
  /\ ui' = [ui EXCEPT ![s].signUpData[f] = v]
  /\ UNCHANGED <<store, decision, sent, client>>

\* the least length the password input accepts
minLength == 6

\* the browser lets the form submit: every input is required, the password
\* has minLength characters
SignUpFormValid(data) ==
  /\ \A f \in NewUserFields : data[f] # ""
  /\ Len(data.password) >= minLength

\* AuthContext.signUp(email, password, name, role): creates the auth
\* identity and the User row paired with it, carrying the name and the role
\* it is given; error tells whether one of the two requests failed
signUp(s, email, password, name, role, error) ==
  /\ now < MaxTime
  /\ FreeUserIds # {}
  /\ \E authFailure \in BOOLEAN, profileFailure \in BOOLEAN :
       LET a == CHOOSE x \in FreeUserIds : TRUE
           row == [id |-> a, auth_id |-> a, name |-> name, role |-> role]
       IN /\ error = (authFailure \/ profileFailure \/ ~UsersInsertPolicy(a, row))
          /\ IF authFailure
             THEN /\ sent' = [by |-> s, table |-> "auth.users", op |-> "signUp",
                              id |-> NULL, payload |-> EmptyData]
                  /\ UNCHANGED store
             ELSE /\ auth_users' = auth_users \cup {a}
                  /\ now' = now + 1
                  /\ sent' = [by |-> s, table |-> "users", op |-> "insert",
                              id |-> a, payload |-> row]
                  /\ users' = IF error THEN users ELSE users \cup {row}
                  /\ UNCHANGED <<projects, project_members, project_modules>>

\* SignUp.handleSubmit: signUp with the values of the form, the role the
\* select holds included; an error is shown in the form.  Once signed up
\* the session is signed in (App renders the Dashboard).
handleSubmit_SignUp(s) ==
  /\ ui[s].profile = NoProfile
  /\ ui[s].currentPage = "signup"
  /\ SignUpFormValid(ui[s].signUpData)
  /\ \E error \in BOOLEAN :
       /\ signUp(s, ui[s].signUpData.email, ui[s].signUpData.password,
                 ui[s].signUpData.name, ui[s].signUpData.role, error)
       /\ ui' = [ui EXCEPT ![s] =
                   IF error
                   THEN [ui[s] EXCEPT !.signUpError = TRUE]
                   ELSE [SignedOut EXCEPT
                           !.profile = CHOOSE u \in users' : u \notin users,
                           !.currentPage = "dashboard"]]
  /\ UNCHANGED <<decision, client>>

\* nobody is signed in in session s1, which shows the sign-in page; in
\* session s2 the admin has the Members page open
InitSignUp ==
  /\ users = {UserRow(u) : u \in MembersUserIds}
  /\ projects = {}
  /\ project_modules = {}
  /\ project_members = {}
  /\ auth_users = {u.auth_id : u \in users}
  /\ now = MaxTime - 1
  /\ decision = NoDecision
  /\ sent = NoRequest
  /\ client = ClientReady
  /\ ui = [s \in Sessions |->
             IF s = "s2"
             THEN OpenPage([SignedOut EXCEPT !.profile = UserRow("u_admin")],
                           "members", FALSE)
             ELSE SignedOut]

NextSignUp ==
  \E s \in Sessions :
    \/ onToggleMode(s)
    \/ \E f \in NewUserFields : \E v \in SignUpValues(s, f) : SignUpInputChange(s, f, v)
    \/ handleSubmit_SignUp(s)
    \/ OpenAddUser(s)
    \/ CloseAddUser(s)
    \/ \E f \in NewUserFields : \E v \in NewUserValues(f) : ChangeNewUser(s, f, v)
    \/ handleAddUser(s)

SpecSignUp == InitSignUp /\ [][NextSignUp]_vars

----------------------------------------------------------------------------
(* Claims about canEditField and the update policy (SpecPolicy) *)

\* the module the recorded decision is about
TargetModule == CHOOSE m \in project_modules : m.id = decision.target

\* the recorded decision is canEditField for a signed-in actor
EditDecision == decision.op = "canEditField" /\ decision.actor \in UserIds

ActorIsAssignee == decision.actor = TargetModule.assigned_dev_id

\* the permission table as the specification states it
TableAllows(field, role) ==
  CASE field \in {"module_name", "platform_stack", "assigned_dev_id"} -> role = "admin"
    [] field = "design_locked_date" -> role \in {"designer", "admin"}
    [] field \in {"dev_start_date", "self_qa_date"} -> role \in {"dev", "admin"}
    [] field = "lead_signoff_date" -> role \in {"lead", "admin"}
    [] field \in {"pm_review_date", "client_ready_status", "eta", "sprint"} ->
         role \in {"pm", "admin"}
    [] field = "cto_review_status" -> role \in {"cto", "admin"}
    [] field = "status" -> role \in {"dev", "pm", "admin"}
    [] field = "notes" -> role \in Roles

C2_OtherDevDenied ==
  (/\ EditDecision /\ ~ActorIsAssignee
   /\ RoleOfUser[decision.actor] = "dev"
   /\ decision.field \in {"dev_start_date", "self_qa_date"})
    => ~decision.allowed

\* C3: an actor whose id equals the module's assigned_dev_id may edit
\* dev_start_date and self_qa_date whatever their role.
C3_AssigneeAllowed ==
  (/\ EditDecision /\ ActorIsAssignee
   /\ decision.field \in {"dev_start_date", "self_qa_date"})
    => decision.allowed

\* the recorded decision is about an actor whose stored role is unknown
UnknownRoleActor ==
  decision.actor \in UserIds /\ RoleOfUser[decision.actor] \notin Roles

\* C13 (as stated): for an actor whose stored role is none of the six roles,
\* canEditField is false for every field of every module, RoleProtected
\* renders its fallback for every list of allowed roles, and the Sidebar
\* offers no menu item.
C13_UnknownRoleNoPermissions ==
  UnknownRoleActor
    => /\ decision.op = "canEditField" => ~decision.allowed
       /\ decision.op = "RoleProtected" => ~decision.allowed
       /\ decision.op = "filteredItems" => decision.rows = {}

\* the assignee is a designer, a role outside the allow-list of the field
C3_Witness ==
  /\ EditDecision /\ ActorIsAssignee
  /\ decision.actor = "u_designer"
  /\ decision.field = "self_qa_date"
  /\ decision.allowed

\* C4 (as stated): for every actor, module and field the store applies an
\* update of the field exactly when canEditField allows it.
C4_LayersAgree ==
  decision.op = "update"
    => (decision.allowed
          <=> canEditField(ProfileOf(decision.actor), decision.field, TargetModule))

\* the two fields of the special case
AssigneeFields == {"dev_start_date", "self_qa_date"}

\* C24: for each of the twelve fields other than dev_start_date and
\* self_qa_date the decision of canEditField for an actor does not depend
\* on who the module is assigned to: it is the one the actor's role gets
\* from the table, for the assignee as for every other actor of that role.
C24_AssigneeGetsNothingElse ==
  (EditDecision /\ decision.field \notin AssigneeFields)
    => /\ \A dev \in Actors :
            canEditField(ProfileOf(decision.actor), decision.field,
                         [TargetModule EXCEPT !.assigned_dev_id = dev])
              = decision.allowed
       /\ \A u \in users :
            u.role = ProfileOf(decision.actor).role
              => canEditField(u, decision.field, TargetModule) = decision.allowed

\* the cto, to whom the module is assigned, is denied lead_signoff_date
C24_Witness ==
  /\ EditDecision
  /\ ActorIsAssignee
  /\ decision.actor = "u_cto"
  /\ decision.field = "lead_signoff_date"
  /\ ~decision.allowed

----------------------------------------------------------------------------
(* Claims about the read policies (SpecPolicy) *)

\* a project_members row links user a to project p
HasMemberRow(a, p) == MemberRow(p, a) \in project_members

\* C7: a project is returned to an actor exactly when the actor's role is
\* admin, pm or cto, or a project_members row links the actor to the project;
\* the list fetchProjects shows holds exactly those projects.
C7_ProjectReadable ==
  (decision.op = "fetchProjects" /\ decision.actor \in UserIds)
    => \A p \in projects :
         p.id \in decision.rows
           <=> \/ RoleOfUser[decision.actor] \in {"admin", "pm", "cto"}
               \/ HasMemberRow(decision.actor, p.id)

\* a lead who is a member of p1 only is shown p1 and not p2
C7_Witness ==
  /\ decision.op = "fetchProjects"
  /\ decision.actor = "u_lead"
  /\ HasMemberRow("u_lead", "p1")
  /\ decision.rows = {"p1"}

\* C8: a module is returned to an actor exactly when the actor's role is
\* admin, pm or cto, or the actor is a member of the module's project, or the
\* actor is the module's assigned developer.
C8_ModuleReadable ==
  (decision.op = "fetchModules" /\ decision.actor \in UserIds)
    => \A m \in project_modules :
         m.id \in decision.rows
           <=> /\ m.project_id = decision.target
               /\ \/ RoleOfUser[decision.actor] \in {"admin", "pm", "cto"}
                  \/ HasMemberRow(decision.actor, m.project_id)
                  \/ decision.actor = m.assigned_dev_id

\* a developer without a member row reads the module assigned to them
C8_Witness ==
  /\ decision.op = "fetchModules"
  /\ decision.actor = "u_dev2"
  /\ project_members = {}
  /\ decision.rows = {"m1"}

----------------------------------------------------------------------------
(* Claims about ModuleTable (SpecModules) *)

\* the profile of the session that sent the last request
SenderProfile == ui[sent.by].profile

ModuleUpdateSent == sent.table = "project_modules" /\ sent.op = "update"

ModuleInsertSent == sent.table = "project_modules" /\ sent.op = "insert"

\* C5 (as stated): the update handleSaveModule sends contains only fields
\* for which canEditField is true for the acting user and the module.
C5_PayloadOnlyEditable ==
  ModuleUpdateSent
    => \A f \in Fields :
         f \in DOMAIN sent.payload => canEditField(SenderProfile, f, sent.payload)

C10_FormAndInsertGated ==
  /\ \A s \in Sessions : ui[s].showAddForm => ui[s].profile.role \in {"admin", "pm"}
  /\ ModuleInsertSent => SenderProfile.role \in {"admin", "pm"}
  /\ \A u \in users : ModulesInsertPolicy(u.auth_id) <=> u.role \in {"admin", "pm"}

C10_OnlyAdminOrPmCreates ==
  [][(\E m \in project_modules' : \A r \in project_modules : r.id # m.id)
       => /\ sent'.table = "project_modules" /\ sent'.op = "insert"
          /\ ui[sent'.by].profile.role \in {"admin", "pm"}]_vars

\* C10: the add-module form is open only in sessions of an admin or a pm, an
\* insert of a module is sent only by such a session, the store's insert
\* policy admits exactly the users of these two roles, and a module row comes
\* into existence only in a step in which such a session sent the insert.
C10_ModuleInsertByAdminOrPm ==
  []C10_FormAndInsertGated /\ C10_OnlyAdminOrPmCreates

\* a pm has added a module through the form
C10_Witness ==
  /\ ModuleInsertSent
  /\ SenderProfile.role = "pm"
  /\ ui[sent.by].toast = "success"
  /\ \E m \in project_modules : m.id = "m2" /\ m.module_name = "t1"

\* the module list fetchModules gives session s after the step
RefetchedModules(s) ==
  {r \in project_modules' :
     r.project_id = ui[s].selectedProjectId /\ ModulesSelectPolicy(Uid(s), r)}

\* a save, an add or a delete that ended with an error changed nothing but
\* the notification
ErrorOutcome(s) ==
  /\ ui'[s] = [ui[s] EXCEPT !.toast = "error"]
  /\ UNCHANGED store

C26_SaveOutcome ==
  [][\A s \in Sessions :
       handleSaveModule(s)
         => \/ ErrorOutcome(s)
            \/ /\ ui'[s].toast = "success"
               /\ ui'[s].editingId = NULL
               /\ ui'[s].editData = EmptyData
               /\ ui'[s].modules = RefetchedModules(s)]_vars

C26_AddAndDeleteOutcome ==
  [][\A s \in Sessions :
       (handleAddModule(s) \/ \E m \in ui[s].modules : handleDeleteModule(s, m))
         => \/ ErrorOutcome(s)
            \/ /\ ui'[s].toast = "success"
               /\ ui'[s].modules = RefetchedModules(s)]_vars

\* C26: a module save, add or delete for which the store returned an error
\* shows the error notification and no success notification, leaves the
\* module list as it was (no refetch), writes nothing (no retry) and, for a
\* save, leaves editingId and the edited values as they were; a save that
\* succeeded closes the edit session, clears the edited values and refetches.
C26_ErrorsAreTerminal ==
  C26_SaveOutcome /\ C26_AddAndDeleteOutcome

\* a save of a changed row has failed: the edit session is still open with
\* the changed values
C26_Witness ==
  /\ ModuleUpdateSent
  /\ ui[sent.by].toast = "error"
  /\ ui[sent.by].editingId = sent.id
  /\ ui[sent.by].editData = sent.payload
  /\ \E m \in ui[sent.by].modules : m.id = sent.id /\ m # ui[sent.by].editData
  /\ \E m \in project_modules : m.id = sent.id /\ m # sent.payload

----------------------------------------------------------------------------
(* Claims about AddProject and ProjectDetail (SpecProjects) *)

ProjectInsertSent == sent.table = "projects" /\ sent.op = "insert"

ProjectUpdateSent == sent.table = "projects" /\ sent.op = "update"

C6_FormAndInsertGated ==
  /\ \A s \in Sessions : AddProjectRendered(s) => ui[s].profile.role = "admin"
  /\ \A s \in Sessions : ui[s].formData # FormDefaults => ui[s].profile.role = "admin"
  /\ ProjectInsertSent => SenderProfile.role = "admin"
  /\ \A u \in users : ProjectsInsertPolicy(u.auth_id) <=> u.role = "admin"

C6_OnlyAdminCreates ==
  [][(\E p \in projects' : \A r \in projects : r.id # p.id)
       => /\ sent'.op = "insert" /\ sent'.table \in {"projects", "project_members"}
          /\ ui[sent'.by].profile.role = "admin"]_vars

\* C6: the add-project form is rendered, and filled in, only in the session
\* of an admin; an insert of a project is sent only by such a session; the
\* store's insert policy on projects admits exactly the users of role admin;
\* and a project row comes into existence only in a step of an admin's
\* handleSubmit.
C6_ProjectCreatedOnlyByAdmin ==
  []C6_FormAndInsertGated /\ C6_OnlyAdminCreates

\* an admin has created project p2 through the form
C6_Witness ==
  /\ sent.op = "insert" /\ sent.table \in {"projects", "project_members"}
  /\ SenderProfile.role = "admin"
  /\ ui[sent.by].toast = "success"
  /\ \E p \in projects : p.id = "p2" /\ p.title = "t1" /\ p.created_by = "u_admin"

C9_EditAndUpdateGated ==
  /\ \A s \in Sessions : ui[s].editing => ui[s].profile.role \in {"admin", "pm"}
  /\ ProjectUpdateSent => SenderProfile.role \in {"admin", "pm"}
  /\ \A u \in users :
       /\ ProjectsUpdatePolicy(u.auth_id) <=> u.role \in {"admin", "pm"}
       /\ \A p \in projects :
            ProjectsUpdateReaches(u.auth_id, p) <=> u.role \in {"admin", "pm"}

C9_OnlyAdminOrPmUpdates ==
  [][(\E p \in projects : p \notin projects')
       => /\ sent'.op = "update" /\ sent'.table = "projects"
          /\ ui[sent'.by].profile.role \in {"admin", "pm"}]_vars

\* C9: edit mode of the project detail screen is on only in the session of
\* an admin or a pm; an update of a project is sent only by such a session;
\* the store's update policy on projects admits exactly the users of these
\* two roles, for every project; and a project row changes only in a step
\* of such a session's handleSaveProject.
C9_ProjectUpdatedOnlyByAdminOrPm ==
  []C9_EditAndUpdateGated /\ C9_OnlyAdminOrPmUpdates

\* a pm has changed project p1 through the edit mode
C9_Witness ==
  /\ ProjectUpdateSent
  /\ SenderProfile.role = "pm"
  /\ ui[sent.by].toast = "success"
  /\ \E p \in projects : p.id = "p1" /\ p # ProjectRow("p1", "u_admin")

----------------------------------------------------------------------------
(* Claims about the Members page and the deletes (SpecMembers) *)

DeleteSent == sent.op = "delete" /\ sent.table \in {"project_modules", "users"}

\* the role the store holds for the user of a session
StoredRole(s) ==
  IF \E u \in users : u.auth_id = Uid(s)
  THEN (CHOOSE u \in users : u.auth_id = Uid(s)).role
  ELSE NULL

C11_DeleteGated ==
  /\ \A s \in Sessions :
       ModuleTableMounted(s) /\ canDeleteModule(ui[s].profile)
         => ui[s].profile.role = "admin"
  /\ \A s \in Sessions : MembersRendered(s) => ui[s].profile.role = "admin"
  /\ DeleteSent => SenderProfile.role = "admin"
  /\ \A u \in users :
       /\ ModulesDeletePolicy(u.auth_id) <=> u.role = "admin"
       /\ UsersDeletePolicy(u.auth_id) <=> u.role = "admin"

C11_OnlyAdminDeletes ==
  [][(\/ \E r \in users : \A x \in users' : x.id # r.id
      \/ \E m \in project_modules : \A x \in project_modules' : x.id # m.id)
       => /\ sent'.op = "delete" /\ sent'.table \in {"project_modules", "users"}
          /\ ui[sent'.by].profile.role = "admin"
          /\ StoredRole(sent'.by) = "admin"]_vars

\* C11: the delete button of a module row and the Members page (with its
\* delete buttons) are rendered only in the session of an admin; a delete of
\* a module or of a user is sent only by such a session; the delete policies
\* on project_modules and on users admit exactly the users of role admin;
\* and a module row or a user row disappears only in a step in which an
\* admin's session sent the delete.
C11_DeleteOnlyByAdmin ==
  []C11_DeleteGated /\ C11_OnlyAdminDeletes

\* an admin has deleted user u_dev on the Members page
C11_Witness ==
  /\ sent.op = "delete" /\ sent.table = "users" /\ sent.id = "u_dev"
  /\ SenderProfile.role = "admin"
  /\ ui[sent.by].toast = "success"
  /\ \A u \in users : u.id # "u_dev"
  /\ \A r \in project_members : r.user_id # "u_dev"

UserUpdateSent == sent.table = "users" /\ sent.op = "update"

\* C12 (as stated): an update of the acting user's own users row that changes
\* its role is not sent by the Members page, and the stored role of the
\* acting user is still the one of the session's profile after the save.
C12_NoSelfRoleChange ==
  (UserUpdateSent /\ sent.id = SenderProfile.id)
    => /\ sent.payload.role = SenderProfile.role
       /\ \A u \in users : u.id = sent.id => u.role = SenderProfile.role

----------------------------------------------------------------------------
(* Claims about two sessions editing one module (SpecEdits) *)

\* the fields session s has changed in the row it is editing
EditChanges(s) == ChangedFields(EditedRow(s), ui[s].editData)

\* the steps of the scenario the permission table allows, taken by session s:
\* a pm changes eta or sprint, a cto sets cto_review_status to approved, the
\* assigned developer changes dev_start_date
AllowedScenarioStep(s) ==
  /\ EditChanges(s) # {}
  /\ \/ ui[s].profile.role = "pm" /\ EditChanges(s) \subseteq {"eta", "sprint"}
     \/ /\ ui[s].profile.role = "cto"
        /\ EditChanges(s) = {"cto_review_status"}
        /\ ui[s].editData.cto_review_status = "approved"
     \/ /\ ui[s].profile.role = "dev"
        /\ EditedRow(s).assigned_dev_id = ui[s].profile.id
        /\ EditChanges(s) = {"dev_start_date"}

\* a developer other than the assigned one saves a changed dev_start_date
OtherDevStep(s) ==
  /\ ui[s].profile.role = "dev"
  /\ EditedRow(s).assigned_dev_id # ui[s].profile.id
  /\ EditChanges(s) = {"dev_start_date"}

\* C14 (as stated): in the scenario every step has the stated outcome. A
\* save of an allowed step that the page reports as saved is applied to the
\* stored module; a pm never has a changed cto_review_status in the row it
\* edits; and a save of dev_start_date by a developer who is not the
\* assigned one leaves the stored modules unchanged.
C14_ScenarioOutcomes ==
  [][\A s \in Sessions :
       handleSaveModule(s) =>
         /\ (AllowedScenarioStep(s) /\ ui'[s].toast = "success")
              => \E r \in project_modules' :
                   /\ r.id = ui[s].editingId
                   /\ \A f \in EditChanges(s) : r[f] = ui[s].editData[f]
         /\ ui[s].profile.role = "pm"
              => ui[s].editData.cto_review_status = EditedRow(s).cto_review_status
         /\ OtherDevStep(s) => project_modules' = project_modules]_vars

\* C15: a save the store applies writes the whole record the saving session
\* holds: the stored module then equals that session's snapshot with its own
\* changes, so every field the session did not change gets the value the
\* session loaded when it began editing, whatever the store held before the
\* save (there is no comparison with the stored row, no conflict detection).
C15_LastWriteWins ==
  [][\A s \in Sessions :
       (handleSaveModule(s) /\ now' = now + 1)
         => \E r \in project_modules' :
              /\ r.id = ui[s].editingId
              /\ r = ui[s].editData
              /\ \A f \in Fields \ EditChanges(s) : r[f] = EditedRow(s)[f]]_vars

\* the pm saved an eta (its list shows it), then the cto saved an approval
\* from a snapshot loaded before: the stored eta is the one the cto loaded
C15_Witness ==
  /\ now = 2
  /\ ui["s1"].profile.role = "pm"
  /\ \E m \in ui["s1"].modules : m.id = "m1" /\ m.eta = "t1"
  /\ sent.by = "s2" /\ ModuleUpdateSent
  /\ ui["s2"].toast = "success"
  /\ \E r \in project_modules :
       r.id = "m1" /\ r.eta = NULL /\ r.cto_review_status = "approved"

\* the two review columns of a module
ReviewFields == {"cto_review_status", "client_ready_status"}

\* C16 (as stated): a review status that has left pending is not changed by
\* any later save: it neither returns to pending nor switches between
\* approved and rejected.
C16_ReviewSetOnce ==
  [][\A r \in project_modules, r2 \in project_modules' :
       r.id = r2.id
         => \A f \in ReviewFields : r[f] # "pending" => r2[f] = r[f]]_vars

\* a module row with other values of status and of the two review statuses
WithStatuses(r, st, c1, c2) ==
  [r EXCEPT !.status = st, !.cto_review_status = c1, !.client_ready_status = c2]

\* neither canEditField nor the update policy looks at the values of status
\* and of the review statuses, and the status select of a session that may
\* edit status offers every value other than the current one
C17_NoRelationEnforced ==
  /\ \A r \in project_modules, u \in users, st \in ProjectStatus,
        c1 \in ReviewStatus, c2 \in ReviewStatus :
       /\ ModulesUpdatePolicy(u.auth_id, WithStatuses(r, st, c1, c2))
            <=> ModulesUpdatePolicy(u.auth_id, r)
       /\ canEditField(u, "status", WithStatuses(r, st, c1, c2))
            <=> canEditField(u, "status", r)
  /\ \A s \in Sessions :
       (/\ ui[s].editingId # NULL
        /\ \E m \in ui[s].modules : m.id = ui[s].editingId
        /\ canEditField(ui[s].profile, "status", EditedRow(s))
        /\ EditChanges(s) \subseteq {"status"})
         => \A v \in ProjectStatus \ {ui[s].editData.status} :
              ENABLED ChangeEditField(s, "status", v)

\* a save of a changed status that reaches the stored row and is reported as
\* saved stores the chosen status, whatever the status was before and
\* whatever the review statuses are
C17_AnyStatusInOneSave ==
  [][\A s \in Sessions :
       (/\ handleSaveModule(s)
        /\ "status" \in EditChanges(s)
        /\ UpdateTargets(Uid(s), ui[s].editingId) # {}
        /\ ui'[s].toast = "success")
         => \E r \in project_modules' :
              r.id = ui[s].editingId /\ r.status = ui[s].editData.status]_vars

\* C17: no operation enforces a relation between a module's status and its
\* review statuses or between successive status values: the permission
\* decisions do not depend on them, every status value can be chosen from
\* every other, and a permitted save of a changed status is always applied.
C17_StatusUnconstrained ==
  []C17_NoRelationEnforced /\ C17_AnyStatusInOneSave

\* a save has moved the module from not_started to done in one step while
\* both review statuses are pending
C17_Witness ==
  /\ now = 1
  /\ ModuleUpdateSent /\ sent.payload.status = "done"
  /\ ui[sent.by].toast = "success"
  /\ \E r \in project_modules :
       /\ r.id = "m1" /\ r.status = "done"
       /\ r.cto_review_status = "pending" /\ r.client_ready_status = "pending"

----------------------------------------------------------------------------
(* Claims about the rows that reference a project (SpecCascade) *)

\* C18: every module and every member row references a stored project, also
\* after a project has been removed: the removal takes the project's modules
\* and member rows with it, no user can fetch a module of a project that is
\* not stored, and a later insert of a module for the removed project fails.
C18_ReferencesLiveProject ==
  /\ \A m \in project_modules : \E p \in projects : p.id = m.project_id
  /\ \A r \in project_members : \E p \in projects : p.id = r.project_id
  /\ \A x \in ProjectIds, u \in users :
       (\A p \in projects : p.id # x) => FetchedModules(u.auth_id, x) = {}

\* p1 has been removed while session s1 still lists its module m1, and the
\* insert of a module for p1 that s1 sent afterwards has failed
C18_Witness ==
  /\ \A p \in projects : p.id # "p1"
  /\ \E m \in ui["s1"].modules : m.id = "m1" /\ m.project_id = "p1"
  /\ ModuleInsertSent /\ sent.by = "s1" /\ sent.payload.project_id = "p1"
  /\ ui["s1"].toast = "error"
  /\ now = 1

\* the users a member list holds
ListedMembers(members) == {members[i] : i \in 1..Len(members)}

\* no user occurs twice in a member list
NoDuplicates(members) ==
  \A i \in 1..Len(members), j \in 1..Len(members) :
    members[i] = members[j] => i = j

MembersInsertSent == sent.table = "project_members" /\ sent.op = "insert"

\* the member list of every add-project form, and the list of the member
\* insert that was sent, hold no user twice
C19_ListsDuplicateFree ==
  /\ \A s \in Sessions : NoDuplicates(ui[s].formData.members)
  /\ MembersInsertSent => NoDuplicates(sent.payload.user_ids)

\* a form's member list starts empty and changes only by one user entering
\* or leaving it, and a member insert the store accepts adds one row for
\* each entry of the submitted list, all for a project that had no member
C19_TogglesAndInserts ==
  [][/\ \A s \in Sessions :
          LET before == ui[s].formData.members
              after == ui'[s].formData.members
          IN after # before
               => \/ after = << >>
                  \/ /\ NoDuplicates(before) /\ NoDuplicates(after)
                     /\ \E u \in FormUserIds :
                          \/ /\ u \notin ListedMembers(before)
                             /\ ListedMembers(after) = ListedMembers(before) \cup {u}
                          \/ /\ u \in ListedMembers(before)
                             /\ ListedMembers(after) = ListedMembers(before) \ {u}
     /\ project_members' \ project_members # {}
          => /\ MembersInsertSent'
             /\ Cardinality(project_members' \ project_members) = Len(sent'.payload.user_ids)
             /\ \A r \in project_members : r.project_id # sent'.id]_vars

\* C19: no (project, user) pair is stored twice and no member list holds a
\* user twice: every toggle flips the presence of exactly one user in a list
\* that starts empty (so a user is listed exactly after an odd number of
\* toggles), and every accepted member insert stores as many rows as the
\* submitted list has entries, for a project that had no member rows.
C19_MemberPairsUnique ==
  []C19_ListsDuplicateFree /\ C19_TogglesAndInserts

\* the form of s2 was submitted with two users ticked and both member rows
\* of project p2 are stored
C19_Witness ==
  /\ MembersInsertSent /\ sent.by = "s2"
  /\ Len(sent.payload.user_ids) = 2
  /\ ui["s2"].toast = "success"
  /\ {MemberRow("p2", "u_dev"), MemberRow("p2", "u_pm")} \subseteq project_members

\* C20 (as stated): when handleSubmit of AddProject has ended with the error
\* notification, the project it was creating is not stored.
C20_FailedSubmitStoresNothing ==
  (/\ sent.op = "insert"
   /\ sent.table \in {"projects", "project_members"}
   /\ ui[sent.by].toast = "error")
    => \A p \in projects : p.id # sent.id

\* the tables whose rows differ between the two states of a step
ChangedTables ==
  {t \in {"users", "projects", "project_members", "project_modules", "auth.users"} :
     \/ t = "users" /\ users' # users
     \/ t = "projects" /\ projects' # projects
     \/ t = "project_members" /\ project_members' # project_members
     \/ t = "project_modules" /\ project_modules' # project_modules
     \/ t = "auth.users" /\ auth_users' # auth_users}

\* C21 (as stated): a step in which a handler of a page saves, adds or
\* deletes writes through one mutation only, so the rows of at most one
\* table, the one the request names, differ after it; and the module list a
\* page shows changes only to what the store holds once the step is done.
C21_OneMutationPerAction ==
  [][\A s \in Sessions :
       (handleAddModule(s) \/ handleSubmit(s)
          \/ \E m \in ui[s].modules : handleDeleteModule(s, m))
         => /\ ChangedTables \subseteq {sent'.table}
            /\ ui'[s].modules # ui[s].modules
                 => ui'[s].modules =
                      {r \in project_modules' :
                         /\ r.project_id = ui[s].selectedProjectId
                         /\ ModulesSelectPolicy(Uid(s), r)}]_vars

----------------------------------------------------------------------------
(* Claims about the notifications of a save (SpecEdits, SpecMembers) *)

\* C22 (as stated): a save of a module the store's policies keep from the
\* stored row ends with the error notification, not with the success one.
C22_BlockedSaveRejected ==
  [][\A s \in Sessions :
       (/\ handleSaveModule(s)
        /\ \E r \in project_modules :
             r.id = ui[s].editingId /\ ~ModulesUpdateReaches(Uid(s), r))
         => ui'[s].toast = "error"]_vars

----------------------------------------------------------------------------
(* Claims about the start-up of the store client (SpecStartup) *)

\* C23: the client exists only when the service URL and the public key are
\* both present and non-empty; when one of them is missing, start-up has
\* stopped with the error, no client exists and no request has been sent;
\* and a request is sent only through a client that exists.
C23_ClientNeedsBothSettings ==
  /\ client.state = "created" => Truthy(client.url) /\ Truthy(client.key)
  /\ (client.state # "loading" /\ ~(Truthy(client.url) /\ Truthy(client.key)))
       => client.state = "failed" /\ client.log = "missing" /\ sent = NoRequest
  /\ sent # NoRequest => client.state = "created"

\* the URL is set and the key is the empty string: start-up has stopped
C23_Witness ==
  /\ client.url = "v1" /\ client.key = ""
  /\ client.state = "failed"
  /\ sent = NoRequest

----------------------------------------------------------------------------
(* Claims about the edit of a user card (SpecMembers) *)

\* C25 (as stated): after an admin has saved an edit of another user's card
\* and the page has reported it as saved, the stored row of that user
\* carries the name and the role of the edit.
C25_AdminEditsOtherUser ==
  [][\A s \in Sessions :
       (/\ handleSaveUser(s)
        /\ StoredRole(s) = "admin"
        /\ ui[s].userEditingId # ui[s].profile.id
        /\ ui'[s].toast = "success")
         => \E u \in users' :
              /\ u.id = ui[s].userEditingId
              /\ u.name = ui[s].userEditData.name
              /\ u.role = ui[s].userEditData.role]_vars

----------------------------------------------------------------------------
(* Claims about a save that is in flight (SpecInflight) *)

\* C27 (as stated): when the answer to the save of one module arrives while
\* the session is editing another module, the edit session of that other
\* module stays open and its edited values are kept.
C27_SaveLeavesOtherEdit ==
  [][\A s \in Sessions :
       (/\ SaveModuleDone(s)
        /\ ui[s].editingId # NULL
        /\ ui[s].editingId # ui[s].saving.id)
         => /\ ui'[s].editingId = ui[s].editingId
            /\ ui'[s].editData = ui[s].editData]_vars

----------------------------------------------------------------------------
(* Claims about the sign-up page (SpecSignUp) *)

\* C28: a User record with role admin comes into existence only in a step
\* of a session whose signed-in user is stored with role admin; the sign-up
\* of a person who is not signed in never creates one.
C28_AdminOnlyByAdmin ==
  [][\A u \in users' :
       (u.role = "admin" /\ u \notin users)
         => /\ sent'.by \in Sessions
            /\ ui[sent'.by].profile # NoProfile
            /\ StoredRole(sent'.by) = "admin"]_vars

----------------------------------------------------------------------------
(* Claims about the Sidebar and the page gates (SpecProjects) *)

\* the pages App.renderPage wraps in RoleProtected
GatedPages == {"add-project", "members", "analytics"}

\* C29: the Sidebar and the page gates agree: a page that is a menu item
\* shown to the signed-in user renders its content, not the Access Denied
\* fallback, and every gated page whose gate admits the user is a menu item
\* shown to the user.
C29_MenuAndGatesAgree ==
  \A s \in Sessions :
    ui[s].profile # NoProfile
      => /\ ui[s].currentPage \in filteredItems(ui[s].profile)
              => RoleProtected(ui[s].profile, PageAllowedRoles(ui[s].currentPage))
         /\ \A page \in GatedPages :
              RoleProtected(ui[s].profile, PageAllowedRoles(page))
                => page \in filteredItems(ui[s].profile)

----------------------------------------------------------------------------
(* Claims about the Cancel button of ProjectDetail (SpecProjects) *)

\* C30: Cancel discards the unsaved changes of a project edit: whenever
\* edit mode is entered the form holds the values of the project as the
\* page shows them, so that a later Save cannot store values typed before a
\* Cancel.
C30_CancelDiscardsChanges ==
  [][\A s \in Sessions :
       (~ui[s].editing /\ ui'[s].editing)
         => \A f \in ProjectFields : ui'[s].projEditData[f] = ui'[s].project[f]]_vars

====
